---- MODULE Spec2Model ----
(***************************************************************************)
(* Wave-resonance indexing of 8b-is/qdrant (src/tools): the vector -> wave *)
(* transform, the two resonance scorers and the two resonance-graph        *)
(* builders.                                                               *)
(*                                                                         *)
(* Python floats are modelled as exact rationals <<n, d>> in lowest terms  *)
(* with d > 0.  Every float the modelled code computes from the inputs     *)
(* used here is either exactly representable or compared far from a        *)
(* rounding boundary.  A phase is stored as its multiple of pi (0 or 1).   *)
(* Python indices are 0-based; sequence position k holds Python index k-1, *)
(* and a harmonic tag <<j, label>> keeps the 0-based Python index j.       *)
(***************************************************************************)
EXTENDS Integers, Sequences, FiniteSets, TLC

VARIABLES
    vector,          \* the embedding handed to vector_to_wave
    wave,            \* WaveTransformer.vector_to_wave(vector), or None
    wave1, wave2,    \* the two wave patterns handed to the scorers
    context,         \* the SearchContext of the query-time scorer
    resonance,       \* WaveTransformer.calculate_resonance(wave1, wave2), or None
    q_resonance,     \* WaveSearchEngine.calculate_resonance(wave1, wave2, context), or None
    documents,       \* the batch of LibraryDocument handed to the graph builders
    mem8,            \* outcome of Mem8Ingester.ingest_documents(documents), or None
    resonance_data,  \* result of QdrantIngester.create_resonance_indices(documents), or None
    data_dir,        \* Mem8Ingester.data_dir: master_index.json, documents.json, *_index.json
    ingest,          \* the running Mem8Ingester.ingest_documents: its position and locals
    load,            \* the running WaveSearchEngine.load_indices: its position and locals
    engine,          \* WaveSearchEngine: documents, category_indices, resonance_graph
    call             \* the last search / find_harmonics call made with `context`, or None

\* the store, the engine and the calls on them
engine_vars == <<data_dir, ingest, load, engine, call>>

vars == <<vector, wave, wave1, wave2, context, resonance, q_resonance,
          documents, mem8, resonance_data, engine_vars>>

\* Optional[...]: None is the empty tuple, a present value v is the one-element tuple <<v>>
None == <<>>
Some(v) == <<v>>

\* WaveSearchEngine.__init__: three empty dicts, and no master_index attribute yet.
\* documents is kept as the sequence of its values in insertion order (the order
\* .items() iterates in), the other two dicts as functions
NewEngine ==
    [master_index |-> None, documents |-> <<>>,
     category_indices |-> <<>>, resonance_graph |-> <<>>]

\* a file of the data directory is absent (None), holds the JSON text of a value v
\* (Some(v)), or has been opened with mode 'w' and not written yet: it is empty
Truncated == <<"open", "w">>
is_json(file) == Len(file) = 1

\* Mem8Ingester.__init__ on a fresh path: the data directory exists and is empty.
\* indices maps the category of every <category>_index.json to that file
EmptyDir == [master_index |-> None, docs_data |-> None, indices |-> <<>>]

\* nothing ingested, nothing loaded, no call made
NoEngine ==
    /\ data_dir = EmptyDir
    /\ ingest = None /\ load = None
    /\ engine = NewEngine
    /\ call = None

-----------------------------------------------------------------------------
(* Bounds of the model *)

\* longest embedding enumerated value by value
MaxLen == 4
\* how many entries past the first capped frequency a long embedding has
MaxOver == 2

-----------------------------------------------------------------------------
(* Float arithmetic as exact rationals *)

Abs(x) == IF x < 0 THEN -x ELSE x

RECURSIVE Gcd(_, _)
Gcd(a, b) == IF b = 0 THEN a ELSE Gcd(b, a % b)

Rat(n, d) ==
    LET g == Gcd(Abs(n), Abs(d))
        s == IF d < 0 THEN -1 ELSE 1
    IN  <<(s * n) \div g, (s * d) \div g>>

RInt(k) == <<k, 1>>
RAdd(a, b) == Rat(a[1] * b[2] + b[1] * a[2], a[2] * b[2])
RSub(a, b) == Rat(a[1] * b[2] - b[1] * a[2], a[2] * b[2])
RMul(a, b) == Rat(a[1] * b[1], a[2] * b[2])
RDiv(a, b) == Rat(a[1] * b[2], a[2] * b[1])
RAbs(a) == <<Abs(a[1]), a[2]>>
RLt(a, b) == a[1] * b[2] < b[1] * a[2]
RGt(a, b) == RLt(b, a)
RGe(a, b) == ~RLt(a, b)

Min(a, b) == IF a < b THEN a ELSE b

-----------------------------------------------------------------------------
(* WaveTransformer.vector_to_wave *)

FreqBase == 20
FreqStep == 100
FreqCap == 20000

\* harmonic_tag with the fifth test written without abs()
harmonic_tag_no_abs(freq, other_freq, j) ==
    LET ratio == IF other_freq > 0 THEN RDiv(RInt(freq), RInt(other_freq)) ELSE RInt(0)
    IN  IF RLt(RAbs(RSub(ratio, Rat(2, 1))), Rat(1, 10)) THEN <<j, "octave">>
        ELSE IF RLt(RSub(ratio, Rat(15, 10)), Rat(1, 10)) THEN <<j, "fifth">>
        ELSE IF RLt(RAbs(RSub(ratio, Rat(133, 100))), Rat(1, 10)) THEN <<j, "fourth">>
        ELSE <<>>

\* the elif chain for one earlier frequency: the tag appended for Python index j, if any
harmonic_tag(freq, other_freq, j) ==
    LET ratio == IF other_freq > 0 THEN RDiv(RInt(freq), RInt(other_freq)) ELSE RInt(0)
    IN  IF RLt(RAbs(RSub(ratio, Rat(2, 1))), Rat(1, 10)) THEN <<j, "octave">>
        ELSE IF RLt(RAbs(RSub(ratio, Rat(15, 10))), Rat(1, 10)) THEN <<j, "fifth">>
        ELSE IF RLt(RAbs(RSub(ratio, Rat(133, 100))), Rat(1, 10)) THEN <<j, "fourth">>
        ELSE <<>>

\* for j, other_freq in enumerate(wave["frequencies"][:i]): the tags appended, in order of j
identify_harmonics(freq, others) ==
    SelectSeq([k \in 1..Len(others) |-> harmonic_tag(freq, others[k], k - 1)],
              LAMBDA t : t # <<>>)

\* frequency_at without the cap at 20 kHz
frequency_at_uncapped(i) == FreqBase + i * FreqStep

\* freq = 20 + (i * 100); freq = min(freq, 20000), for Python index i
frequency_at(i) == Min(FreqBase + i * FreqStep, FreqCap)

\* vector_to_wave taking the phase from val > 0 instead of val >= 0
vector_to_wave_strict_sign(vec) ==
    LET n == Len(vec)
        frequencies == [k \in 1..n |-> frequency_at(k - 1)]
    IN  [frequencies |-> frequencies,
         amplitudes  |-> [k \in 1..n |-> RAbs(vec[k])],
         phases      |-> [k \in 1..n |-> IF RGt(vec[k], RInt(0)) THEN 0 ELSE 1],
         harmonics   |-> [k \in 1..n |->
                            identify_harmonics(frequencies[k], SubSeq(frequencies, 1, k - 1))]]

\* the loop over enumerate(vector): position k is the iteration with i = k - 1, which
\* appends one entry to each of the four lists
vector_to_wave(vec) ==
    LET n == Len(vec)
        frequencies == [k \in 1..n |-> frequency_at(k - 1)]
    IN  [frequencies |-> frequencies,
         amplitudes  |-> [k \in 1..n |-> RAbs(vec[k])],
         phases      |-> [k \in 1..n |-> IF RGe(vec[k], RInt(0)) THEN 0 ELSE 1],
         harmonics   |-> [k \in 1..n |->
                            identify_harmonics(frequencies[k], SubSeq(frequencies, 1, k - 1))]]

-----------------------------------------------------------------------------
(* Embeddings the model feeds to the transform *)

Vals == {Rat(-1, 1), Rat(0, 1), Rat(1, 2), Rat(1, 1)}

RECURSIVE SeqsUpTo(_, _)
SeqsUpTo(S, n) ==
    IF n = 0 THEN {<<>>}
    ELSE LET shorter == SeqsUpTo(S, n - 1)
         IN  shorter \cup {Append(s, x) : s \in {t \in shorter : Len(t) = n - 1}, x \in S}

ShortVectors == SeqsUpTo(Vals, MaxLen)

\* first Python index whose uncapped frequency exceeds FreqCap
CapIndex == (FreqCap - FreqBase) \div FreqStep + 1

\* long embeddings, reaching past the frequency cap; components alternate in sign
LongVectors ==
    {[k \in 1..n |-> IF k % 2 = 0 THEN Rat(-1, 2) ELSE Rat(1, 1)] :
        n \in CapIndex .. (CapIndex + MaxOver)}

InputVectors == ShortVectors \cup LongVectors

-----------------------------------------------------------------------------
(* Specification of the transform: an embedding is produced, then transformed *)

InitWave ==
    /\ vector \in InputVectors
    /\ wave = None
    /\ wave1 = None /\ wave2 = None /\ context = None
    /\ resonance = None /\ q_resonance = None
    /\ documents = <<>> /\ mem8 = None /\ resonance_data = None
    /\ NoEngine

\* self.model.encode(...): a new embedding replaces the old one
Encode ==
    /\ wave # None
    /\ vector' \in InputVectors
    /\ wave' = None
    /\ UNCHANGED <<wave1, wave2, context, resonance, q_resonance,
                   documents, mem8, resonance_data,
                   engine_vars>>

\* doc.wave_pattern = self.wave_transformer.vector_to_wave(embedding)
VectorToWave ==
    /\ wave = None
    /\ wave' = Some(vector_to_wave(vector))
    /\ UNCHANGED <<vector, wave1, wave2, context, resonance, q_resonance,
                   documents, mem8, resonance_data,
                   engine_vars>>

NextWave == Encode \/ VectorToWave

SpecWave == InitWave /\ [][NextWave]_vars

-----------------------------------------------------------------------------
(* WaveTransformer.calculate_resonance: the ingestion-time scorer *)

\* freq_match = 1.0 / (1.0 + freq_diff / 100)
freq_match(f1, f2) ==
    RDiv(RInt(1), RAdd(RInt(1), RDiv(RInt(Abs(f1 - f2)), RInt(100))))

\* amp_corr written without abs()
amp_corr_signed(a1, a2) == RSub(RInt(1), RSub(a1, a2))

\* amp_corr = 1.0 - abs(amplitude1 - amplitude2)
amp_corr(a1, a2) == RSub(RInt(1), RAbs(RSub(a1, a2)))

\* phase_coherence taken from the first phase alone
phase_coherence_first(p1, p2) == IF p1 % 2 = 0 THEN RInt(1) ELSE RInt(-1)

\* np.cos(abs(phase1 - phase2)), the phases being multiples of pi
phase_coherence(p1, p2) == IF Abs(p1 - p2) % 2 = 0 THEN RInt(1) ELSE RInt(-1)

\* the multiplier applied for one pair (h1, h2) of tags: chosen by the label of h1
bonus_factor(h1, h2) ==
    IF h1[1] = h2[1]
    THEN CASE h1[2] = "octave" -> Rat(15, 10)
           [] h1[2] = "fifth"  -> Rat(13, 10)
           [] h1[2] = "fourth" -> Rat(12, 10)
           [] OTHER -> RInt(1)
    ELSE RInt(1)

\* for h1 in wave1["harmonics"][i]: for h2 in wave2["harmonics"][i]: ..., the pairs
\* numbered p = 0, 1, ... in loop order
RECURSIVE bonus_loop(_, _, _, _)
bonus_loop(hs1, hs2, p, bonus) ==
    IF p >= Len(hs1) * Len(hs2) THEN bonus
    ELSE bonus_loop(hs1, hs2, p + 1,
            RMul(bonus, bonus_factor(hs1[(p \div Len(hs2)) + 1], hs2[(p % Len(hs2)) + 1])))

harmonic_bonus(hs1, hs2) == bonus_loop(hs1, hs2, 0, RInt(1))

\* the summand of loop iteration i = k - 1
resonance_component(w1, w2, k) ==
    RMul(RMul(RMul(freq_match(w1.frequencies[k], w2.frequencies[k]),
                   amp_corr(w1.amplitudes[k], w2.amplitudes[k])),
              phase_coherence(w1.phases[k], w2.phases[k])),
         harmonic_bonus(w1.harmonics[k], w2.harmonics[k]))

\* for i in range(n): score += ...
RECURSIVE resonance_loop(_, _, _, _, _)
resonance_loop(w1, w2, n, k, score) ==
    IF k > n THEN score
    ELSE resonance_loop(w1, w2, n, k + 1, RAdd(score, resonance_component(w1, w2, k)))

\* calculate_resonance dividing by len(wave1["frequencies"]) instead of n
calculate_resonance_len1(w1, w2) ==
    LET n == Min(Len(w1.frequencies), Len(w2.frequencies))
    IN  IF n > 0 THEN RDiv(resonance_loop(w1, w2, n, 1, RInt(0)), RInt(Len(w1.frequencies)))
        ELSE RInt(0)

calculate_resonance(w1, w2) ==
    LET n == Min(Len(w1.frequencies), Len(w2.frequencies))
    IN  IF n > 0 THEN RDiv(resonance_loop(w1, w2, n, 1, RInt(0)), RInt(n)) ELSE RInt(0)

-----------------------------------------------------------------------------
(* WaveSearchEngine.calculate_resonance: the query-time scorer *)

EmotionalStates == {"focused", "happy", "raw", "graceland"}
HarmonicPreferences == {"balanced", "octaves", "fifths", "dissonant"}

\* truth_amplification: float = 1.0 and vulnerability_coefficient: float = 0.5, with the
\* values run_tests passes (2.0 and 0.9) and two smaller amplifications
TruthAmplifications == {Rat(1, 4), Rat(1, 2), Rat(1, 1), Rat(2, 1)}
VulnerabilityCoefficients == {Rat(1, 2), Rat(9, 10)}

\* SearchContext: a coefficient varies where its emotional state reads it and is left
\* at its default elsewhere
Contexts ==
    {ctx \in [emotional_state : EmotionalStates,
              harmonic_preference : HarmonicPreferences,
              truth_amplification : TruthAmplifications,
              vulnerability_coefficient : VulnerabilityCoefficients] :
        /\ ctx.emotional_state # "raw" => ctx.truth_amplification = Rat(1, 1)
        /\ ctx.emotional_state # "graceland" => ctx.vulnerability_coefficient = Rat(1, 2)}

\* preference_bonus with the octaves test centred on the ratio 1.0
preference_bonus_unison(f1, f2, ctx) ==
    LET freq_ratio == IF f2 > 0 THEN RDiv(RInt(f1), RInt(f2)) ELSE RInt(1)
    IN  IF ctx.harmonic_preference = "octaves"
                /\ RLt(RAbs(RSub(freq_ratio, Rat(1, 1))), Rat(1, 10)) THEN Rat(2, 1)
        ELSE IF ctx.harmonic_preference = "fifths"
                /\ RLt(RAbs(RSub(freq_ratio, Rat(15, 10))), Rat(1, 10)) THEN Rat(18, 10)
        ELSE IF ctx.harmonic_preference = "dissonant"
                /\ RLt(RAbs(RSub(freq_ratio, Rat(1414, 1000))), Rat(1, 10)) THEN Rat(15, 10)
        ELSE RInt(1)

\* harmonic_bonus of the query-time scorer: taken from the frequency ratio and the preference
preference_bonus(f1, f2, ctx) ==
    LET freq_ratio == IF f2 > 0 THEN RDiv(RInt(f1), RInt(f2)) ELSE RInt(1)
    IN  IF ctx.harmonic_preference = "octaves"
                /\ RLt(RAbs(RSub(freq_ratio, Rat(2, 1))), Rat(1, 10)) THEN Rat(2, 1)
        ELSE IF ctx.harmonic_preference = "fifths"
                /\ RLt(RAbs(RSub(freq_ratio, Rat(15, 10))), Rat(1, 10)) THEN Rat(18, 10)
        ELSE IF ctx.harmonic_preference = "dissonant"
                /\ RLt(RAbs(RSub(freq_ratio, Rat(1414, 1000))), Rat(1, 10)) THEN Rat(15, 10)
        ELSE RInt(1)

\* emotional_modulation with raw multiplying by truth_amplification alone
emotional_modulation_raw_plain(component_score, corr, ctx) ==
    IF ctx.emotional_state = "raw"
        THEN RMul(component_score, ctx.truth_amplification)
    ELSE IF ctx.emotional_state = "graceland"
        THEN RMul(component_score, RMul(ctx.vulnerability_coefficient, Rat(3, 1)))
    ELSE IF ctx.emotional_state = "happy"
        THEN RMul(component_score, IF RGt(corr, Rat(7, 10)) THEN Rat(13, 10) ELSE Rat(7, 10))
    ELSE component_score

\* emotional_modulation with happy as the state that leaves the component alone
emotional_modulation_happy_plain(component_score, corr, ctx) ==
    IF ctx.emotional_state = "raw"
        THEN RMul(component_score, RMul(Rat(2, 1), ctx.truth_amplification))
    ELSE IF ctx.emotional_state = "graceland"
        THEN RMul(component_score, RMul(ctx.vulnerability_coefficient, Rat(3, 1)))
    ELSE IF ctx.emotional_state = "focused"
        THEN RMul(component_score, IF RGt(corr, Rat(7, 10)) THEN Rat(13, 10) ELSE Rat(7, 10))
    ELSE component_score

\* the emotional modulation of one component score
emotional_modulation(component_score, corr, ctx) ==
    IF ctx.emotional_state = "raw"
        THEN RMul(component_score, RMul(Rat(2, 1), ctx.truth_amplification))
    ELSE IF ctx.emotional_state = "graceland"
        THEN RMul(component_score, RMul(ctx.vulnerability_coefficient, Rat(3, 1)))
    ELSE IF ctx.emotional_state = "happy"
        THEN RMul(component_score, IF RGt(corr, Rat(7, 10)) THEN Rat(13, 10) ELSE Rat(7, 10))
    ELSE component_score

\* the summand of loop iteration i = k - 1
search_component(w1, w2, ctx, k) ==
    LET corr == amp_corr(w1.amplitudes[k], w2.amplitudes[k])
        component_score ==
            RMul(RMul(RMul(freq_match(w1.frequencies[k], w2.frequencies[k]), corr),
                      phase_coherence(w1.phases[k], w2.phases[k])),
                 preference_bonus(w1.frequencies[k], w2.frequencies[k], ctx))
    IN  emotional_modulation(component_score, corr, ctx)

RECURSIVE search_loop(_, _, _, _, _, _)
search_loop(w1, w2, ctx, n, k, score) ==
    IF k > n THEN score
    ELSE search_loop(w1, w2, ctx, n, k + 1, RAdd(score, search_component(w1, w2, ctx, k)))

search_resonance(w1, w2, ctx) ==
    LET n == Min(Len(w1.frequencies), Len(w2.frequencies))
    IN  IF n > 0 THEN RDiv(search_loop(w1, w2, ctx, n, 1, RInt(0)), RInt(n)) ELSE RInt(0)

-----------------------------------------------------------------------------
(* Specification of the scorers: two wave patterns are scored by either scorer *)

\* embeddings of the scored documents: every vector up to MaxLen over two values
ScoreVals == {Rat(-1, 1), Rat(1, 2)}
ScorePatterns == {vector_to_wave(v) : v \in SeqsUpTo(ScoreVals, MaxLen)}

InitScore ==
    /\ wave1 \in ScorePatterns
    /\ wave2 \in ScorePatterns
    /\ context = None
    /\ resonance = None /\ q_resonance = None
    /\ vector = <<>> /\ wave = None
    /\ documents = <<>> /\ mem8 = None /\ resonance_data = None
    /\ NoEngine

\* resonance = WaveTransformer.calculate_resonance(doc.wave_pattern, other_doc.wave_pattern)
CalculateResonance ==
    /\ resonance = None
    /\ resonance' = Some(calculate_resonance(wave1, wave2))
    /\ UNCHANGED <<vector, wave, wave1, wave2, context, q_resonance,
                   documents, mem8, resonance_data,
                   engine_vars>>

\* resonance = self.calculate_resonance(query_wave, doc['wave_pattern'], context): the
\* query-time scorer runs on patterns that ingestion has scored before
SearchResonance ==
    /\ resonance # None
    /\ q_resonance = None
    /\ \E ctx \in Contexts :
        /\ context' = Some(ctx)
        /\ q_resonance' = Some(search_resonance(wave1, wave2, ctx))
    /\ UNCHANGED <<vector, wave, wave1, wave2, resonance,
                   documents, mem8, resonance_data,
                   engine_vars>>

NextScore == CalculateResonance \/ SearchResonance

SpecScore == InitScore /\ [][NextScore]_vars

-----------------------------------------------------------------------------
(* The resonance-graph builders *)

\* [:10] of Mem8Ingester.ingest_documents and [:20] of create_resonance_indices
Mem8TopK == 10
QdrantTopK == 20

\* "if resonance > 0.5" of both builders
Threshold == Rat(1, 2)

Take(q, n) == SubSeq(q, 1, Min(n, Len(q)))

\* the stable descending sort, as the order in which the positions of `keys` come out:
\* a position is placed behind every earlier-placed key that is not smaller
RECURSIVE insert_desc(_, _, _)
insert_desc(order, keys, i) ==
    IF order = <<>> THEN <<i>>
    ELSE IF RLt(keys[Head(order)], keys[i]) THEN <<i>> \o order
    ELSE <<Head(order)>> \o insert_desc(Tail(order), keys, i)

RECURSIVE sort_loop(_, _, _)
sort_loop(order, keys, i) ==
    IF i > Len(keys) THEN order ELSE sort_loop(insert_desc(order, keys, i), keys, i + 1)

\* sorted(..., key=score, reverse=True) leaving the list in its given order
unsorted_desc(q, keys) == q

\* sorted(..., key=score, reverse=True) / list.sort(key=score, reverse=True)
sorted_desc(q, keys) ==
    LET order == sort_loop(<<>>, keys, 1)
    IN  [k \in 1..Len(q) |-> q[order[k]]]

\* the categories dict: its keys in insertion order
RECURSIVE category_keys(_, _, _)
category_keys(docs, k, keys) ==
    IF k > Len(docs) THEN keys
    ELSE category_keys(docs, k + 1,
            IF \E c \in 1..Len(keys) : keys[c] = docs[k].category
            THEN keys ELSE Append(keys, docs[k].category))

\* group_by_category ignoring the category: one group holding every document
one_group(docs) == IF docs = <<>> THEN <<>> ELSE << docs >>

\* categories[doc.category].append(doc): the groups, in insertion order of their category
group_by_category(docs) ==
    LET keys == category_keys(docs, 1, <<>>)
    IN  [c \in 1..Len(keys) |-> SelectSeq(docs, LAMBDA d : d.category = keys[c])]

\* calculate_resonance subscripts both wave patterns: None raises TypeError
pair_raises(doc, other_doc) == doc.wave_pattern = None \/ other_doc.wave_pattern = None

\* mem8_resonances keeping every resonance, whatever its strength
mem8_resonances_no_threshold(docs, i) ==
    SelectSeq(
        [j \in 1..Len(docs) |->
            IF i # j
            THEN <<docs[j].id,
                   calculate_resonance(docs[i].wave_pattern[1], docs[j].wave_pattern[1])>>
            ELSE <<>>],
        LAMBDA e : e # <<>>)

\* mem8_resonances comparing docs[i] with the documents after it only
mem8_resonances_forward(docs, i) ==
    SelectSeq(
        [j \in 1..Len(docs) |->
            IF i < j
            THEN LET r == calculate_resonance(docs[i].wave_pattern[1], docs[j].wave_pattern[1])
                 IN  IF RGt(r, Threshold) THEN <<docs[j].id, r>> ELSE <<>>
            ELSE <<>>],
        LAMBDA e : e # <<>>)

\* the inner loop of ingest_documents for docs[i]: (other_doc.id, resonance) of every
\* other document of the category that resonates above the threshold, in list order
mem8_resonances(docs, i) ==
    SelectSeq(
        [j \in 1..Len(docs) |->
            IF i # j
            THEN LET r == calculate_resonance(docs[i].wave_pattern[1], docs[j].wave_pattern[1])
                 IN  IF RGt(r, Threshold) THEN <<docs[j].id, r>> ELSE <<>>
            ELSE <<>>],
        LAMBDA e : e # <<>>)

\* sorted(resonances, key=lambda x: x[1], reverse=True)[:10] for docs[i]; empty when
\* nothing resonates
mem8_links(docs, i) ==
    LET r == mem8_resonances(docs, i)
    IN  Take(sorted_desc(r, [e \in 1..Len(r) |-> r[e][2]]), Mem8TopK)

\* the resonance_graph of one category index: "if resonances:" keeps non-empty lists only
mem8_graph(docs) ==
    LET links == [i \in 1..Len(docs) |-> mem8_links(docs, i)]
    IN  [id \in {docs[i].id : i \in {i \in 1..Len(docs) : links[i] # <<>>}} |->
            links[CHOOSE i \in 1..Len(docs) : docs[i].id = id]]

\* the index dict written to <category>_index.json
category_index(docs) ==
    [category |-> docs[1].category,
     document_count |-> Len(docs),
     documents |-> [i \in 1..Len(docs) |-> docs[i].id],
     resonance_graph |-> mem8_graph(docs)]

\* whether building the index of this category raises
category_raises(docs) ==
    \E i, j \in 1..Len(docs) : i # j /\ pair_raises(docs[i], docs[j])

\* the loop over categories.items(): the indices saved before the first category that
\* raises, and whether one raised
RECURSIVE save_indices(_, _, _)
save_indices(groups, c, saved) ==
    IF c > Len(groups) THEN [status |-> "ok", indices |-> saved]
    ELSE IF category_raises(groups[c]) THEN [status |-> "TypeError", indices |-> saved]
    ELSE save_indices(groups, c + 1, Append(saved, category_index(groups[c])))

\* Mem8Ingester.ingest_documents: the category indices, then documents.json and the
\* master index, which are not reached when a category raised
ingest_documents(docs) ==
    LET groups == group_by_category(docs)
        out == save_indices(groups, 1, <<>>)
    IN  IF out.status = "ok"
        THEN [status |-> "ok",
              indices |-> out.indices,
              docs_data |-> Some(docs),
              master_index |-> Some([total_documents |-> Len(docs),
                                     categories |-> category_keys(docs, 1, <<>>)])]
        ELSE [status |-> out.status, indices |-> out.indices,
              docs_data |-> None, master_index |-> None]

\* the inner loop of create_resonance_indices for docs[i]
qdrant_resonances(docs, i) ==
    SelectSeq(
        [j \in 1..Len(docs) |->
            IF i = j \/ docs[j].wave_pattern = None THEN <<>>
            ELSE LET r == calculate_resonance(docs[i].wave_pattern[1], docs[j].wave_pattern[1])
                 IN  IF RGt(r, Threshold)
                     THEN [target_id |-> docs[j].id, resonance |-> r,
                           category |-> docs[i].category]
                     ELSE <<>>],
        LAMBDA e : e # <<>>)

\* resonances.sort(key=lambda x: x['resonance'], reverse=True); resonances[:20] for
\* docs[i]; empty when docs[i] is skipped or nothing resonates
qdrant_links(docs, i) ==
    IF docs[i].wave_pattern = None THEN <<>>
    ELSE LET r == qdrant_resonances(docs, i)
         IN  Take(sorted_desc(r, [e \in 1..Len(r) |-> r[e].resonance]), QdrantTopK)

\* the entries create_resonance_indices stores for one category
qdrant_category(docs) ==
    LET links == [i \in 1..Len(docs) |-> qdrant_links(docs, i)]
    IN  [id \in {docs[i].id : i \in {i \in 1..Len(docs) : links[i] # <<>>}} |->
            links[CHOOSE i \in 1..Len(docs) : docs[i].id = id]]

\* resonance_data[doc1.id] = ... over every category: document ids are unique, so the
\* entries of the categories do not overwrite each other
RECURSIVE merge_categories(_, _, _)
merge_categories(groups, c, data) ==
    IF c > Len(groups) THEN data
    ELSE merge_categories(groups, c + 1, qdrant_category(groups[c]) @@ data)

\* QdrantIngester.create_resonance_indices
create_resonance_indices(docs) ==
    merge_categories(group_by_category(docs), 1, <<>>)

-----------------------------------------------------------------------------
(* Specification of the graph builders: a batch is scanned, then handed to each builder *)

\* most documents of the first kind in a batch
MaxBulk == 21

LibraryDocument(id, category, vec, has_wave) ==
    [id |-> id, category |-> category,
     wave_pattern |-> IF has_wave THEN Some(vector_to_wave(vec)) ELSE None]

\* the special documents a batch may hold, each at most once: an RSVP document
\* constructed without a wave pattern, a physics document that would resonate with the
\* RSVP ones, and two RSVP documents of other embeddings
SpecialDocuments ==
    << LibraryDocument(1, "RSVP", <<>>, FALSE),
       LibraryDocument(2, "physics", << Rat(1, 1) >>, TRUE),
       LibraryDocument(3, "RSVP", << Rat(1, 4) >>, TRUE),
       LibraryDocument(4, "RSVP", << Rat(3, 4) >>, TRUE) >>

\* the batches: any selection of the special documents, followed by up to MaxBulk RSVP
\* documents of one more embedding
Batches ==
    {SelectSeq(SpecialDocuments, LAMBDA d : d.id \in chosen)
        \o [k \in 1..n |->
                LibraryDocument(Len(SpecialDocuments) + k, "RSVP", << Rat(1, 1) >>, TRUE)] :
     n \in 0..MaxBulk,
     chosen \in SUBSET {SpecialDocuments[k].id : k \in 1..Len(SpecialDocuments)}}

InitGraph ==
    /\ documents \in Batches
    /\ mem8 = None /\ resonance_data = None
    /\ vector = <<>> /\ wave = None
    /\ wave1 = None /\ wave2 = None /\ context = None
    /\ resonance = None /\ q_resonance = None
    /\ NoEngine

\* await ingester.ingest_documents(documents)
IngestDocuments ==
    /\ mem8 = None
    /\ mem8' = Some(ingest_documents(documents))
    /\ UNCHANGED <<vector, wave, wave1, wave2, context, resonance, q_resonance,
                   documents, resonance_data,
                   engine_vars>>

\* await ingester.create_resonance_indices(documents)
CreateResonanceIndices ==
    /\ resonance_data = None
    /\ resonance_data' = Some(create_resonance_indices(documents))
    /\ UNCHANGED <<vector, wave, wave1, wave2, context, resonance, q_resonance,
                   documents, mem8,
                   engine_vars>>

NextGraph == IngestDocuments \/ CreateResonanceIndices

SpecGraph == InitGraph /\ [][NextGraph]_vars

-----------------------------------------------------------------------------
(* Claims about the transform, checked under SpecWave *)

\* C1: for every input vector of length N (N = 0 included) the transform returns
\* frequencies, amplitudes, phases and harmonics of length N each; the frequencies
\* never decrease with the index and none exceeds 20000.
C1_ShapeAndFrequencyRange ==
    wave # None =>
        LET w == wave[1]
            N == Len(vector)
        IN  /\ Len(w.frequencies) = N
            /\ Len(w.amplitudes) = N
            /\ Len(w.phases) = N
            /\ Len(w.harmonics) = N
            /\ \A k \in 1..N : w.frequencies[k] <= 20000
            /\ \A k \in 1..(N - 1) : w.frequencies[k] <= w.frequencies[k + 1]

\* a transformed vector long enough that the cap applies to two neighbouring entries
C1_Witness ==
    /\ wave # None
    /\ Len(vector) >= 2
    /\ wave[1].frequencies[Len(vector)] = 20000
    /\ wave[1].frequencies[Len(vector) - 1] = 20000

\* C2: at Python index i with value v the transform yields frequency min(20 + 100 i, 20000)
\* whatever v is, amplitude |v| and phase 0 if v >= 0 else pi; the vector [1.0, -1.0]
\* maps to frequencies [20, 120], amplitudes [1.0, 1.0], phases [0, pi].
C2_PerIndexValues ==
    wave # None =>
        LET w == wave[1]
        IN  /\ \A k \in 1..Len(vector) :
                LET i == k - 1
                    v == vector[k]
                IN  /\ w.frequencies[k] = IF i <= 199 THEN 20 + 100 * i ELSE 20000
                    /\ w.amplitudes[k] = IF v[1] < 0 THEN <<-v[1], v[2]>> ELSE v
                    /\ w.phases[k] = IF v[1] >= 0 THEN 0 ELSE 1
            /\ vector = << <<1, 1>>, <<-1, 1>> >> =>
                /\ w.frequencies = <<20, 120>>
                /\ w.amplitudes = << <<1, 1>>, <<1, 1>> >>
                /\ w.phases = <<0, 1>>

\* the scenario vector [1.0, -1.0] has been transformed
C2_Witness ==
    /\ wave # None
    /\ vector = << <<1, 1>>, <<-1, 1>> >>
    /\ wave[1].phases = <<0, 1>>

\* the tolerance test of an interval label on the frequencies f (at i) and g (at j),
\* in whole numbers: |f/g - c| < 0.1
PassesTest(label, f, g) ==
    CASE label = "octave" -> g > 0 /\ Abs(10 * f - 20 * g) < g
      [] label = "fifth"  -> g > 0 /\ Abs(10 * f - 15 * g) < g
      [] label = "fourth" -> g > 0 /\ Abs(100 * f - 133 * g) < 10 * g
      [] OTHER -> FALSE

\* C3: every entry (j, label) of harmonics[i] has j < i and a label whose tolerance test
\* frequency[i] / frequency[j] passes; an earlier index j whose ratio passes none of the
\* three tests has no entry in harmonics[i] (and one that passes a test has exactly one).
C3_HarmonicsCausalAndLabelled ==
    wave # None =>
        LET w == wave[1]
        IN  \A k \in 1..Len(w.harmonics) :
                LET i == k - 1
                    h == w.harmonics[k]
                IN  /\ \A e \in 1..Len(h) :
                        /\ h[e][1] \in 0..(i - 1)
                        /\ PassesTest(h[e][2], w.frequencies[k], w.frequencies[h[e][1] + 1])
                    /\ \A j \in 0..(i - 1) :
                        Cardinality({e \in 1..Len(h) : h[e][1] = j}) =
                            IF \E label \in {"octave", "fifth", "fourth"} :
                                    PassesTest(label, w.frequencies[k], w.frequencies[j + 1])
                            THEN 1 ELSE 0

\* a pattern with an index carrying two tags, next to an earlier index that has none
C3_Witness ==
    /\ wave # None
    /\ \E k \in 1..Len(wave[1].harmonics) :
        /\ Len(wave[1].harmonics[k]) >= 2
        /\ Len(wave[1].harmonics[k]) < k - 1

-----------------------------------------------------------------------------
(* Claims about the scorers, checked under SpecScore *)

\* the sum of the entries of a sequence of rationals
RECURSIVE SumSeq(_)
SumSeq(q) == IF q = <<>> THEN <<0, 1>> ELSE RAdd(q[1], SumSeq(Tail(q)))

\* a wave pattern cut to its first n indices
Prefix(w, n) ==
    [frequencies |-> SubSeq(w.frequencies, 1, n),
     amplitudes  |-> SubSeq(w.amplitudes, 1, n),
     phases      |-> SubSeq(w.phases, 1, n),
     harmonics   |-> SubSeq(w.harmonics, 1, n)]

SharedLen == Min(Len(wave1.frequencies), Len(wave2.frequencies))

\* C4: each scorer returns the arithmetic mean of its per-index component scores over
\* exactly the indices 0 .. min(len(a), len(b)) - 1, returns 0 when either pattern is
\* empty, and gives the same result when both patterns are cut to the shorter length.
C4_MeanOverSharedIndices ==
    /\ resonance # None =>
        /\ SharedLen = 0 => resonance[1] = <<0, 1>>
        /\ SharedLen > 0 =>
            RMul(resonance[1], <<SharedLen, 1>>) =
                SumSeq([k \in 1..SharedLen |-> resonance_component(wave1, wave2, k)])
        /\ resonance[1] = calculate_resonance(Prefix(wave1, SharedLen), Prefix(wave2, SharedLen))
    /\ q_resonance # None =>
        /\ SharedLen = 0 => q_resonance[1] = <<0, 1>>
        /\ SharedLen > 0 =>
            RMul(q_resonance[1], <<SharedLen, 1>>) =
                SumSeq([k \in 1..SharedLen |-> search_component(wave1, wave2, context[1], k)])
        /\ q_resonance[1] =
            search_resonance(Prefix(wave1, SharedLen), Prefix(wave2, SharedLen), context[1])

\* both scorers have scored a longer pattern against a shorter, non-empty one
C4_Witness ==
    /\ resonance # None /\ q_resonance # None
    /\ Len(wave1.frequencies) > Len(wave2.frequencies)
    /\ Len(wave2.frequencies) > 1
    /\ resonance[1] # <<0, 1>>

IsSelfScore == wave1 = wave2 /\ Len(wave1.frequencies) > 0

FocusedBalanced ==
    /\ context # None
    /\ context[1].emotional_state = "focused"
    /\ context[1].harmonic_preference = "balanced"

HasTags(w) == \E k \in 1..Len(w.harmonics) : w.harmonics[k] # <<>>

\* C5 as stated: scoring any non-empty wave pattern against itself gives exactly 1.0,
\* by the ingestion-time scorer and by the query-time scorer with focused / balanced.
C5_SelfScoreIsOne ==
    IsSelfScore =>
        /\ resonance # None => resonance[1] = <<1, 1>>
        /\ (q_resonance # None /\ FocusedBalanced) => q_resonance[1] = <<1, 1>>

\* C5 amended: scoring a non-empty wave pattern of the transform against itself gives
\* exactly 1.0 by the query-time scorer with focused / balanced; the ingestion-time
\* scorer gives exactly 1.0 when the pattern carries no harmonic tag and more than 1.0
\* when it carries one.
C5_SelfScoreAmended ==
    IsSelfScore =>
        /\ (q_resonance # None /\ FocusedBalanced) => q_resonance[1] = <<1, 1>>
        /\ resonance # None =>
            IF HasTags(wave1) THEN RGt(resonance[1], <<1, 1>>) ELSE resonance[1] = <<1, 1>>

\* a tagged pattern with a negative component scored against itself by both scorers
C5_Witness ==
    /\ IsSelfScore
    /\ HasTags(wave1)
    /\ \E k \in 1..Len(wave1.phases) : wave1.phases[k] = 1
    /\ resonance # None
    /\ q_resonance # None /\ FocusedBalanced

\* C6: the ingestion-time scorer is symmetric: calculate_resonance(a, b) equals
\* calculate_resonance(b, a) for every two wave patterns of the transform, the harmonic
\* bonus (whose multiplier follows the first argument's label) included.
C6_IngestionScorerSymmetric ==
    resonance # None => resonance[1] = calculate_resonance(wave2, wave1)

\* two tagged patterns that differ in amplitude and in phase have been scored
C6_Witness ==
    /\ resonance # None
    /\ HasTags(wave1) /\ HasTags(wave2)
    /\ wave1.amplitudes[1] # wave2.amplitudes[1]
    /\ wave1.phases[2] # wave2.phases[2]

-----------------------------------------------------------------------------
(* Claims about the graph builders, checked under SpecGraph *)

Range(q) == {q[k] : k \in 1..Len(q)}

\* the neighbour lists of the graph each builder produced, in one shape: the builder,
\* its K, the document and its neighbours with their scores
Mem8Entries ==
    IF mem8 = None THEN {}
    ELSE UNION {
            {[builder |-> "mem8", K |-> 10, id |-> id,
              links |-> [e \in 1..Len(idx.resonance_graph[id]) |->
                            [target_id |-> idx.resonance_graph[id][e][1],
                             resonance |-> idx.resonance_graph[id][e][2]]]] :
             id \in DOMAIN idx.resonance_graph} :
         idx \in Range(mem8[1].indices)}

QdrantEntries ==
    IF resonance_data = None THEN {}
    ELSE {[builder |-> "qdrant", K |-> 20, id |-> id,
           links |-> [e \in 1..Len(resonance_data[1][id]) |->
                        [target_id |-> resonance_data[1][id][e].target_id,
                         resonance |-> resonance_data[1][id][e].resonance]]] :
          id \in DOMAIN resonance_data[1]}

GraphEntries == Mem8Entries \cup QdrantEntries

DocById(id) == CHOOSE d \in Range(documents) : d.id = id

\* C7: in the graph of either builder (K = 10 for ingest_documents, K = 20 for
\* create_resonance_indices) every neighbour list has at most K entries and every
\* retained neighbour's score is strictly greater than 0.5.
C7_AtMostKAboveThreshold ==
    \A g \in GraphEntries :
        /\ Len(g.links) <= g.K
        /\ \A e \in 1..Len(g.links) :
            2 * g.links[e].resonance[1] > g.links[e].resonance[2]

\* both builders have cut a list to K for a document that had more links than K
C7_Witness ==
    /\ \E g \in Mem8Entries : Len(g.links) = 10
    /\ \E g \in QdrantEntries : Len(g.links) = 20
    /\ Cardinality({d \in Range(documents) :
            d.category = "RSVP" /\ d.wave_pattern # None /\ d.id # 3}) > 21

\* the links the document with this id could have: every other document of its
\* category that has a wave pattern, with its resonance, when that exceeds 0.5
CandidateLinks(id) ==
    LET doc == DocById(id)
        all == {[target_id |-> o.id,
                 resonance |-> calculate_resonance(doc.wave_pattern[1], o.wave_pattern[1])] :
                o \in {o \in Range(documents) :
                        o.id # id /\ o.category = doc.category /\ o.wave_pattern # None}}
    IN  {c \in all : RGt(c.resonance, <<1, 2>>)}

\* C8: every neighbour list is ordered by non-increasing score, and no link that was
\* dropped scores strictly higher than a retained one.
C8_SortedAndTopK ==
    \A g \in GraphEntries :
        /\ \A e \in 1..(Len(g.links) - 1) :
            ~RLt(g.links[e].resonance, g.links[e + 1].resonance)
        /\ \A c \in CandidateLinks(g.id) :
            \/ \E e \in 1..Len(g.links) : g.links[e].target_id = c.target_id
            \/ \A e \in 1..Len(g.links) : ~RGt(c.resonance, g.links[e].resonance)

\* both builders dropped a link of a document whose links differ in score
C8_Witness ==
    /\ \E g \in Mem8Entries :
        /\ Cardinality(CandidateLinks(g.id)) > 10
        /\ \E c \in CandidateLinks(g.id) : RLt(c.resonance, g.links[1].resonance)
    /\ \E g \in QdrantEntries :
        /\ Cardinality(CandidateLinks(g.id)) > 20
        /\ \E c \in CandidateLinks(g.id) : RLt(c.resonance, g.links[1].resonance)

\* C9: every neighbour of a document belongs to the document's category, and no
\* document is listed as its own neighbour.
C9_NeighboursWithinCategory ==
    \A g \in GraphEntries :
        \A e \in 1..Len(g.links) :
            /\ g.links[e].target_id # g.id
            /\ g.links[e].target_id \in {d.id : d \in Range(documents)}
            /\ DocById(g.links[e].target_id).category = DocById(g.id).category

\* both builders linked RSVP documents in a batch that also holds a physics document
\* whose wave pattern equals that of a linked RSVP document
C9_Witness ==
    /\ Mem8Entries # {} /\ QdrantEntries # {}
    /\ \E d \in Range(documents) :
        /\ d.category = "physics"
        /\ \E g \in Mem8Entries : DocById(g.id).wave_pattern = d.wave_pattern
        /\ \E g \in QdrantEntries : DocById(g.id).wave_pattern = d.wave_pattern

NoWaveDocs == {d \in Range(documents) : d.wave_pattern = None}

\* the documents of the batch that have a wave pattern and a candidate link
LinkedDocs ==
    {d \in Range(documents) : d.wave_pattern # None /\ CandidateLinks(d.id) # {}}

\* C10: a document without a wave pattern is skipped by both builders: it has no entry
\* in the graph, is in no neighbour list, and the graph of the remaining documents is
\* built normally (the builder completes and every document with a link has its entry).
C10_NoWaveDocumentSkipped ==
    /\ \A g \in GraphEntries :
        /\ DocById(g.id).wave_pattern # None
        /\ \A e \in 1..Len(g.links) : DocById(g.links[e].target_id).wave_pattern # None
    /\ mem8 # None =>
        /\ mem8[1].status = "ok"
        /\ {g.id : g \in Mem8Entries} = {d.id : d \in LinkedDocs}
    /\ resonance_data # None =>
        {g.id : g \in QdrantEntries} = {d.id : d \in LinkedDocs}

-----------------------------------------------------------------------------
(* WaveSearchEngine: load_indices, search and find_harmonics *)

\* self.documents[doc['id']] = doc: a new key is appended, an old key keeps its place
put_document(docs, doc) ==
    IF \E k \in 1..Len(docs) : docs[k].id = doc.id
    THEN [k \in 1..Len(docs) |-> IF docs[k].id = doc.id THEN doc ELSE docs[k]]
    ELSE Append(docs, doc)

\* for doc in docs_data: self.documents[doc['id']] = doc
RECURSIVE load_documents(_, _, _)
load_documents(docs, docs_data, k) ==
    IF k > Len(docs_data) THEN docs
    ELSE load_documents(put_document(docs, docs_data[k]), docs_data, k + 1)

\* one *_index.json: self.category_indices[category] = index and
\* self.resonance_graph.update(index.get('resonance_graph', {}))
load_category(eng, index) ==
    [eng EXCEPT !.category_indices = (index.category :> index) @@ @,
                !.resonance_graph = index.resonance_graph @@ @]

RECURSIVE load_categories(_, _, _)
load_categories(eng, indices, c) ==
    IF c > Len(indices) THEN eng
    ELSE load_categories(load_category(eng, indices[c]), indices, c + 1)

\* load_indices run from its first line to its last on files that hold JSON: the master
\* index and documents.json if they exist, then the category indices in the order glob
\* yields their files
load_indices(eng, master_index, docs_data, indices) ==
    LET mastered == IF master_index = None THEN eng
                    ELSE [eng EXCEPT !.master_index = master_index]
        loaded == IF docs_data = None THEN mastered
                  ELSE [mastered EXCEPT !.documents = load_documents(@, docs_data[1], 1)]
    IN  load_categories(loaded, indices, 1)

\* SearchContext(): the dataclass defaults
SearchContext ==
    [emotional_state |-> "focused", harmonic_preference |-> "balanced",
     truth_amplification |-> Rat(1, 1), vulnerability_coefficient |-> Rat(1, 2)]

\* search_vector_to_wave keeping the sign of the value in the amplitude
search_vector_to_wave_signed(vec) ==
    [frequencies |-> [k \in 1..Len(vec) |-> frequency_at(k - 1)],
     amplitudes  |-> [k \in 1..Len(vec) |-> vec[k]],
     phases      |-> [k \in 1..Len(vec) |-> IF RGe(vec[k], RInt(0)) THEN 0 ELSE 1]]

\* WaveSearchEngine.vector_to_wave: the query's wave pattern, which has no harmonics
search_vector_to_wave(vec) ==
    [frequencies |-> [k \in 1..Len(vec) |-> frequency_at(k - 1)],
     amplitudes  |-> [k \in 1..Len(vec) |-> RAbs(vec[k])],
     phases      |-> [k \in 1..Len(vec) |-> IF RGe(vec[k], RInt(0)) THEN 0 ELSE 1]]

\* skips_category with the filter ignored
skips_category_never(doc, category_filter) == FALSE

\* "if category_filter and doc['category'] != category_filter: continue"
skips_category(doc, category_filter) ==
    /\ category_filter # None
    /\ category_filter[1] # ""
    /\ doc.category # category_filter[1]

\* search_result applying the valence factor in every emotional state
search_result_valence_always(query_wave, doc, ctx) ==
    LET base == search_resonance(query_wave, doc.wave_pattern[1], ctx)
    IN  [id |-> doc.id,
         category |-> doc.category,
         resonance |-> RMul(RMul(base, RAdd(RInt(1), RAbs(doc.emotional_valence))),
                            RAdd(Rat(1, 2), doc.importance)),
         emotional_valence |-> doc.emotional_valence]

\* the dict appended to results for one document (title, preview and path are passed
\* through from the document and left out here)
search_result(query_wave, doc, ctx) ==
    LET base == search_resonance(query_wave, doc.wave_pattern[1], ctx)
        valenced == IF ctx.emotional_state \in {"raw", "graceland"}
                    THEN RMul(base, RAdd(RInt(1), RAbs(doc.emotional_valence)))
                    ELSE base
    IN  [id |-> doc.id,
         category |-> doc.category,
         resonance |-> RMul(valenced, RAdd(Rat(1, 2), doc.importance)),
         emotional_valence |-> doc.emotional_valence]

\* the loop over self.documents.items(): the results list before it is sorted
search_candidates(docs, query_wave, ctx, category_filter) ==
    LET kept == SelectSeq(docs, LAMBDA d : ~skips_category(d, category_filter)
                                           /\ d.wave_pattern # None)
    IN  [k \in 1..Len(kept) |-> search_result(query_wave, kept[k], ctx)]

\* results.sort(key=lambda x: x['resonance'], reverse=True)
sort_results(results) ==
    sorted_desc(results, [k \in 1..Len(results) |-> results[k].resonance])

\* resonant_docs = dict(links)[id]: the score of the last pair that names id
resonant_score(links, id) ==
    LET last == CHOOSE e \in 1..Len(links) :
                    /\ links[e][1] = id
                    /\ \A f \in (e + 1)..Len(links) : links[f][1] # id
    IN  links[last][2]

\* boost_results looping over every result, the top one included
boost_results_with_top(results, links) ==
    [k \in 1..Len(results) |->
        IF \E e \in 1..Len(links) : links[e][1] = results[k].id
        THEN [results[k] EXCEPT !.resonance =
                RMul(@, RAdd(RInt(1), RMul(resonant_score(links, results[k].id), Rat(1, 2))))]
        ELSE results[k]]

\* the loop over results[1:]: result['resonance'] *= (1.0 + resonant_docs[id] * 0.5)
boost_results(results, links) ==
    [k \in 1..Len(results) |->
        IF k > 1 /\ \E e \in 1..Len(links) : links[e][1] = results[k].id
        THEN [results[k] EXCEPT !.resonance =
                RMul(@, RAdd(RInt(1), RMul(resonant_score(links, results[k].id), Rat(1, 2))))]
        ELSE results[k]]

\* rerank without the second sort
rerank_no_sort(results, graph, ctx) ==
    IF Len(results) > 0 /\ ctx.harmonic_preference # "balanced"
       /\ results[1].id \in DOMAIN graph
    THEN boost_results(results, graph[results[1].id])
    ELSE results

\* rerank running under every harmonic_preference
rerank_always(results, graph, ctx) ==
    IF Len(results) > 0 /\ results[1].id \in DOMAIN graph
    THEN sort_results(boost_results(results, graph[results[1].id]))
    ELSE results

\* the graph-based re-ranking of the sorted results
rerank(results, graph, ctx) ==
    IF Len(results) > 0 /\ ctx.harmonic_preference # "balanced"
       /\ results[1].id \in DOMAIN graph
    THEN sort_results(boost_results(results, graph[results[1].id]))
    ELSE results

\* results[:top_k], a negative top_k counting from the end
slice_to(q, top_k) ==
    IF top_k >= 0 THEN Take(q, top_k)
    ELSE SubSeq(q, 1, IF Len(q) + top_k > 0 THEN Len(q) + top_k ELSE 0)

\* WaveSearchEngine.search on the embedding self.model.encode(query) returned
search(eng, query_embedding, context_arg, category_filter, top_k) ==
    LET ctx == IF context_arg = None THEN SearchContext ELSE context_arg[1]
        query_wave == search_vector_to_wave(query_embedding)
        results == sort_results(
                      search_candidates(eng.documents, query_wave, ctx, category_filter))
    IN  slice_to(rerank(results, eng.resonance_graph, ctx), top_k)

\* harmonics[:10]
HarmonicsTopK == 10

\* harmonic_step adding up every interval the ratio falls in
harmonic_step_additive(ratio, harmonic_type) ==
    RAdd(RAdd(IF harmonic_type \in {"all", "octave"}
                 /\ RLt(RAbs(RSub(ratio, Rat(2, 1))), Rat(1, 10)) THEN RInt(1) ELSE RInt(0),
              IF harmonic_type \in {"all", "fifth"}
                 /\ RLt(RAbs(RSub(ratio, Rat(15, 10))), Rat(1, 10)) THEN Rat(8, 10) ELSE RInt(0)),
         IF harmonic_type \in {"all", "fourth"}
            /\ RLt(RAbs(RSub(ratio, Rat(133, 100))), Rat(1, 10)) THEN Rat(7, 10) ELSE RInt(0))

\* harmonic_step with the octave test centred on the ratio 1.0
harmonic_step_unison(ratio, harmonic_type) ==
    IF harmonic_type \in {"all", "octave"}
       /\ RLt(RAbs(RSub(ratio, Rat(1, 1))), Rat(1, 10)) THEN RInt(1)
    ELSE IF harmonic_type \in {"all", "fifth"}
       /\ RLt(RAbs(RSub(ratio, Rat(15, 10))), Rat(1, 10)) THEN Rat(8, 10)
    ELSE IF harmonic_type \in {"all", "fourth"}
       /\ RLt(RAbs(RSub(ratio, Rat(133, 100))), Rat(1, 10)) THEN Rat(7, 10)
    ELSE RInt(0)

\* the if/elif/elif of find_harmonics: what one index adds to harmonic_score
harmonic_step(ratio, harmonic_type) ==
    IF harmonic_type \in {"all", "octave"}
       /\ RLt(RAbs(RSub(ratio, Rat(2, 1))), Rat(1, 10)) THEN RInt(1)
    ELSE IF harmonic_type \in {"all", "fifth"}
       /\ RLt(RAbs(RSub(ratio, Rat(15, 10))), Rat(1, 10)) THEN Rat(8, 10)
    ELSE IF harmonic_type \in {"all", "fourth"}
       /\ RLt(RAbs(RSub(ratio, Rat(133, 100))), Rat(1, 10)) THEN Rat(7, 10)
    ELSE RInt(0)

\* ratio = other_freqs[i] / base_freqs[i] if base_freqs[i] > 0 else 0
harmonic_ratio(base_freq, other_freq) ==
    IF base_freq > 0 THEN RDiv(RInt(other_freq), RInt(base_freq)) ELSE RInt(0)

\* the loop over range(min(len(base_freqs), len(other_freqs)))
RECURSIVE harmonic_loop(_, _, _, _, _)
harmonic_loop(base_freqs, other_freqs, harmonic_type, k, score) ==
    IF k > Min(Len(base_freqs), Len(other_freqs)) THEN score
    ELSE harmonic_loop(base_freqs, other_freqs, harmonic_type, k + 1,
            RAdd(score, harmonic_step(harmonic_ratio(base_freqs[k], other_freqs[k]),
                                      harmonic_type)))

harmonic_score(base_freqs, other_freqs, harmonic_type) ==
    harmonic_loop(base_freqs, other_freqs, harmonic_type, 1, RInt(0))

\* f"ratio_{ratio:.2f}": the ratio rounded to hundredths, ties to even
ratio_label(ratio) ==
    LET scaled == RMul(ratio, RInt(100))
        floor == scaled[1] \div scaled[2]
        twice == 2 * (scaled[1] - floor * scaled[2])
        up == twice > scaled[2] \/ (twice = scaled[2] /\ floor % 2 = 1)
    IN  <<"ratio_", IF up THEN floor + 1 ELSE floor>>

\* WaveSearchEngine._identify_harmonic_type
identify_harmonic_type(freq1, freq2) ==
    IF freq1 = 0 THEN "undefined"
    ELSE LET ratio == RDiv(RInt(freq2), RInt(freq1))
             near(x, tol) == RLt(RAbs(RSub(ratio, x)), tol)
         IN  IF near(Rat(1, 1), Rat(5, 100)) THEN "unison"
             ELSE IF near(Rat(2, 1), Rat(1, 10)) THEN "octave"
             ELSE IF near(Rat(15, 10), Rat(1, 10)) THEN "perfect_fifth"
             ELSE IF near(Rat(133, 100), Rat(1, 10)) THEN "perfect_fourth"
             ELSE IF near(Rat(125, 100), Rat(1, 10)) THEN "major_third"
             ELSE IF near(Rat(12, 10), Rat(1, 10)) THEN "minor_third"
             ELSE ratio_label(ratio)

\* harmonic_entry keeping documents that score 0 as well
harmonic_entry_any_score(base_doc, other_doc, harmonic_type) ==
    LET base_freqs == base_doc.wave_pattern[1].frequencies
        other_freqs == other_doc.wave_pattern[1].frequencies
    IN  [id |-> other_doc.id,
         category |-> other_doc.category,
         harmonic_score |-> harmonic_score(base_freqs, other_freqs, harmonic_type),
         relationship |-> IF Len(base_freqs) > 0 /\ Len(other_freqs) > 0
                          THEN identify_harmonic_type(base_freqs[1], other_freqs[1])
                          ELSE "undefined"]

\* the dict appended to harmonics for one other document, or nothing (<<>>) when its
\* harmonic_score is 0 (title is passed through from the document and left out here)
harmonic_entry(base_doc, other_doc, harmonic_type) ==
    LET base_freqs == base_doc.wave_pattern[1].frequencies
        other_freqs == other_doc.wave_pattern[1].frequencies
        score == harmonic_score(base_freqs, other_freqs, harmonic_type)
    IN  IF RGt(score, RInt(0))
        THEN [id |-> other_doc.id,
              category |-> other_doc.category,
              harmonic_score |-> score,
              relationship |-> identify_harmonic_type(base_freqs[1], other_freqs[1])]
        ELSE <<>>

\* WaveSearchEngine.find_harmonics
find_harmonics(eng, doc_id, harmonic_type) ==
    LET docs == eng.documents
    IN  IF ~\E k \in 1..Len(docs) : docs[k].id = doc_id THEN <<>>
        ELSE LET base_doc == docs[CHOOSE k \in 1..Len(docs) : docs[k].id = doc_id]
             IN  IF base_doc.wave_pattern = None THEN <<>>
                 ELSE LET found ==
                            SelectSeq(
                                [k \in 1..Len(docs) |->
                                    IF docs[k].id = doc_id \/ docs[k].wave_pattern = None
                                    THEN <<>>
                                    ELSE harmonic_entry(base_doc, docs[k], harmonic_type)],
                                LAMBDA e : e # <<>>)
                      IN  Take(sorted_desc(found,
                                    [e \in 1..Len(found) |-> found[e].harmonic_score]),
                               HarmonicsTopK)

-----------------------------------------------------------------------------
(* Specification of the search engine: a library is ingested and loaded, then searched *)

\* largest top_k enumerated below the default of 10
MaxTopK == 2

\* LibraryProcessor.process_file: the document of one file, with the valence and the
\* importance its content and category gave it
process_file(id, category, embedding, emotional_valence, importance) ==
    [id |-> id, category |-> category,
     wave_pattern |-> Some(vector_to_wave(embedding)),
     emotional_valence |-> emotional_valence,
     importance |-> importance]

\* a LibraryDocument constructed with the dataclass defaults: no wave pattern
bare_document(id, category) ==
    [id |-> id, category |-> category, wave_pattern |-> None,
     emotional_valence |-> RInt(0), importance |-> Rat(1, 2)]

\* the library: three RSVP documents (the third of opposite phase), a physics document
\* and a general document without a wave pattern
Library ==
    << process_file(1, "RSVP", << Rat(1, 1) >>, RInt(0), Rat(9, 10)),
       process_file(2, "physics", << Rat(1, 1) >>, Rat(-1, 2), Rat(6, 10)),
       process_file(3, "RSVP", << Rat(3, 4) >>, Rat(1, 2), Rat(8, 10)),
       bare_document(4, "general"),
       process_file(5, "RSVP", << Rat(-1, 1) >>, Rat(1, 1), Rat(1, 1)) >>

\* the ingested batches: the library, or the library without some documents
SearchBatches ==
    {SelectSeq(Library, LAMBDA d : d.id \notin left_out) :
        left_out \in {{}, {1}, {2, 4}, {3, 5}, {1, 3, 5}, {1, 2, 3, 4, 5}}}

\* the data directory after ingest_documents returned `out`
dir_of(out) ==
    [master_index |-> out.master_index,
     docs_data |-> out.docs_data,
     indices |-> [c \in {out.indices[k].category : k \in 1..Len(out.indices)} |->
                    Some(out.indices[CHOOSE k \in 1..Len(out.indices) :
                                        out.indices[k].category = c])]]

\* self.model.encode(query): embeddings of the queries, the empty one among them
QueryEmbeddings == { <<>>, << Rat(1, 1) >>, << Rat(-1, 2), Rat(1, 1) >> }

\* category_filter: none, the category of some documents, or a category of none
CategoryFilters == {None, Some("RSVP"), Some("general"), Some("epistemology")}

TopKs == 0..MaxTopK \cup {10}

\* SearchContext(...) as the callers construct it: the two coefficients at their defaults
SearchContexts == {ctx \in Contexts : /\ ctx.truth_amplification = Rat(1, 1)
                                      /\ ctx.vulnerability_coefficient = Rat(1, 2)}

HarmonicTypes == {"all", "octave", "fifth", "fourth"}

\* doc_id arguments: the ids of the loaded documents and one id of no document
DocIds == {engine.documents[k].id : k \in 1..Len(engine.documents)} \cup {0}

InitSearch ==
    /\ documents \in SearchBatches
    /\ LET out == ingest_documents(documents)
       IN  /\ data_dir = dir_of(out)
           /\ engine = load_indices(NewEngine, out.master_index, out.docs_data, out.indices)
    /\ ingest = None /\ load = None
    /\ call = None
    /\ context = None
    /\ mem8 = None /\ resonance_data = None
    /\ vector = <<>> /\ wave = None
    /\ wave1 = None /\ wave2 = None
    /\ resonance = None /\ q_resonance = None

\* context = SearchContext(...): the caller constructs the context of its next calls and
\* drops the list the last call returned
NewContext ==
    /\ context' \in {Some(ctx) : ctx \in SearchContexts}
    /\ call' = None
    /\ UNCHANGED <<vector, wave, wave1, wave2, resonance, q_resonance,
                   documents, mem8, resonance_data,
                   data_dir, ingest, load, engine>>

\* Search filtering self.documents in place: the documents the category filter skips
\* are removed from the engine
Search_filtering_in_place ==
    /\ \E query_embedding \in QueryEmbeddings, category_filter \in CategoryFilters,
          top_k \in TopKs :
        /\ call' = [op |-> "search",
                    query_embedding |-> query_embedding,
                    context |-> context,
                    category_filter |-> category_filter,
                    top_k |-> top_k,
                    returned |-> search(engine, query_embedding, context,
                                        category_filter, top_k)]
        /\ engine' = [engine EXCEPT !.documents =
                        SelectSeq(@, LAMBDA d : ~skips_category(d, category_filter))]
    /\ UNCHANGED <<vector, wave, wave1, wave2, context, resonance, q_resonance,
                   documents, mem8, resonance_data,
                   data_dir, ingest, load>>

\* results = await self.engine.search(query, context, category_filter, top_k)
Search ==
    /\ \E query_embedding \in QueryEmbeddings, category_filter \in CategoryFilters,
          top_k \in TopKs :
        call' = [op |-> "search",
                 query_embedding |-> query_embedding,
                 context |-> context,
                 category_filter |-> category_filter,
                 top_k |-> top_k,
                 returned |-> search(engine, query_embedding, context,
                                     category_filter, top_k)]
    /\ UNCHANGED <<vector, wave, wave1, wave2, context, resonance, q_resonance,
                   documents, mem8, resonance_data,
                   data_dir, ingest, load, engine>>

\* harmonics = await self.engine.find_harmonics(doc_id, harmonic_type)
FindHarmonics ==
    /\ \E doc_id \in DocIds, harmonic_type \in HarmonicTypes :
        call' = [op |-> "find_harmonics",
                 doc_id |-> doc_id,
                 harmonic_type |-> harmonic_type,
                 returned |-> find_harmonics(engine, doc_id, harmonic_type)]
    /\ UNCHANGED <<vector, wave, wave1, wave2, context, resonance, q_resonance,
                   documents, mem8, resonance_data,
                   data_dir, ingest, load, engine>>

NextSearch == NewContext \/ Search \/ FindHarmonics

SpecSearch == InitSearch /\ [][NextSearch]_vars

-----------------------------------------------------------------------------
(* Claims about WaveSearchEngine.search, checked under SpecSearch *)

IsSearch == call # None /\ call.op = "search"

\* the context a search ran with: the caller's, or SearchContext() when it passed none
ContextOf == IF call.context = None THEN SearchContext ELSE call.context[1]

\* the loaded documents a search may return: those that pass the category filter of the
\* call and have a wave pattern
Eligible ==
    {d \in Range(engine.documents) :
        /\ d.wave_pattern # None
        /\ call.category_filter # None => d.category = call.category_filter[1]}

ReturnedIds == {call.returned[k].id : k \in 1..Len(call.returned)}

FinalResults ==
    search(engine, call.query_embedding, call.context, call.category_filter,
           Len(engine.documents))

\* the sorted results of the call before the re-ranking pass
PreRerank ==
    sort_results(search_candidates(engine.documents,
                                   search_vector_to_wave(call.query_embedding),
                                   ContextOf, call.category_filter))

IdsOf(q) == [k \in 1..Len(q) |-> q[k].id]

\* C12: the list a search returns is in non-increasing order of the final scores (the
\* scores after the re-ranking boost), holds min(top_k, number of eligible candidates)
\* entries, and no eligible candidate it leaves out has a final score strictly higher
\* than one it returns.
C12_SortedTopKOfFinalScores ==
    IsSearch =>
        /\ \A k \in 1..(Len(call.returned) - 1) :
                RGe(call.returned[k].resonance, call.returned[k + 1].resonance)
        /\ Len(call.returned) = Min(call.top_k, Cardinality(Eligible))
        /\ \A e \in Range(FinalResults) :
                e.id \notin ReturnedIds
                => \A k \in 1..Len(call.returned) :
                        ~RGt(e.resonance, call.returned[k].resonance)

\* a search with top_k = 2 over three or more candidates whose re-ranking pass brought a
\* boosted candidate into the first two
C12_Witness ==
    /\ IsSearch
    /\ call.top_k = 2
    /\ Cardinality(Eligible) > 2
    /\ ContextOf.harmonic_preference # "balanced"
    /\ IdsOf(call.returned) # IdsOf(Take(PreRerank, 2))

-----------------------------------------------------------------------------
(* Claims about the emotional modulation of the query-time scorer, checked under SpecScore *)

\* the query-time score of the two patterns under the context with emotional_state
\* focused and every other field as in `context`
FocusedScore ==
    search_resonance(wave1, wave2, [context[1] EXCEPT !.emotional_state = "focused"])

IsRawScore ==
    /\ q_resonance # None
    /\ context[1].emotional_state = "raw"

\* C13 as stated: whenever the score under focused is positive, the score under raw is
\* strictly higher, for every positive truth_amplification.
C13_RawStrictlyHigher ==
    (IsRawScore /\ RGt(FocusedScore, RInt(0))) => RGt(q_resonance[1], FocusedScore)

\* C13 amended: the score under raw is 2 * truth_amplification times the score under
\* focused; for a positive focused score it is strictly higher when
\* truth_amplification > 0.5, equal at 0.5 and strictly lower below 0.5.
C13_RawScalesByTwiceAmplification ==
    IsRawScore =>
        LET ta == context[1].truth_amplification
        IN  /\ q_resonance[1] = RMul(RMul(Rat(2, 1), ta), FocusedScore)
            /\ RGt(FocusedScore, RInt(0)) =>
                    /\ RGt(ta, Rat(1, 2)) => RGt(q_resonance[1], FocusedScore)
                    /\ ta = Rat(1, 2) => q_resonance[1] = FocusedScore
                    /\ RLt(ta, Rat(1, 2)) => RLt(q_resonance[1], FocusedScore)

\* two different patterns with a positive focused score were scored under raw with the
\* default truth_amplification
C13_Witness ==
    /\ IsRawScore
    /\ wave1 # wave2
    /\ context[1].truth_amplification = Rat(1, 1)
    /\ RGt(FocusedScore, RInt(0))
    /\ Len(wave1.frequencies) > 1 /\ Len(wave2.frequencies) > 1

-----------------------------------------------------------------------------
(* Claims about WaveSearchEngine.search, checked under SpecSearch (continued) *)

\* C14: a search whose query vector is empty (length 0) returns the empty list, and so
\* does a search whose category filter is the category of no loaded document.
C14_InputErrorsYieldEmpty ==
    IsSearch =>
        /\ call.query_embedding = <<>> => call.returned = <<>>
        /\ (/\ call.category_filter # None
            /\ \A d \in Range(engine.documents) : d.category # call.category_filter[1])
           => call.returned = <<>>

-----------------------------------------------------------------------------
(* Specification of the index files: batches are ingested into the data directory,   *)
(* one file operation at a time, while an engine loads the directory, one file at a  *)
(* time; both run as coroutines of one event loop and yield at every await           *)

\* the batches handed to ingest_documents one after the other: a physics document; two
\* RSVP documents that resonate; the physics document with one of the RSVP documents
IndexBatches ==
    { << Library[2] >>,
      << Library[1], Library[3] >>,
      << Library[2], Library[3] >> }

\* the file <category>_index.json of the directory
index_file(dir, category) ==
    IF category \in DOMAIN dir.indices THEN dir.indices[category] ELSE None

\* writing <category>_index.json: the other files stay as they are
with_index_file(dir, category, file) ==
    [dir EXCEPT !.indices = (category :> file) @@ @]

InitIndex ==
    /\ NoEngine
    /\ documents = <<>>
    /\ context = None
    /\ mem8 = None /\ resonance_data = None
    /\ vector = <<>> /\ wave = None
    /\ wave1 = None /\ wave2 = None
    /\ resonance = None /\ q_resonance = None

\* the frame of every action of this specification
IndexFrame ==
    UNCHANGED <<vector, wave, wave1, wave2, context, resonance, q_resonance,
                mem8, resonance_data, call>>

\* a load that an ingestion starts under is overtaken by it
overtake(ld) == IF ld = None THEN None ELSE [ld EXCEPT !.overtaken = TRUE]

\* await ingester.ingest_documents(documents): the call groups the batch by category
\* and reaches the first category
IngestStart ==
    /\ ingest = None
    /\ \E batch \in IndexBatches :
        /\ documents' = batch
        /\ ingest' = [pc |-> "open_index", groups |-> group_by_category(batch), c |-> 1]
    /\ load' = overtake(load)
    /\ UNCHANGED <<data_dir, engine>>
    /\ IndexFrame

\* one category: its index is built, which raises TypeError out of ingest_documents
\* when a pattern-less document is scored, and aiofiles.open(category_file, 'w')
\* empties the file
OpenIndex ==
    /\ ingest # None /\ ingest.pc = "open_index"
    /\ IF category_raises(ingest.groups[ingest.c])
       THEN /\ ingest' = None
            /\ UNCHANGED data_dir
       ELSE /\ ingest' = [ingest EXCEPT !.pc = "write_index"]
            /\ data_dir' = with_index_file(data_dir, ingest.groups[ingest.c][1].category,
                                           Truncated)
    /\ UNCHANGED <<documents, load, engine>>
    /\ IndexFrame

\* await f.write(json.dumps(index, indent=2)), then the next category or documents.json
WriteIndex ==
    /\ ingest # None /\ ingest.pc = "write_index"
    /\ data_dir' = with_index_file(data_dir, ingest.groups[ingest.c][1].category,
                                   Some(category_index(ingest.groups[ingest.c])))
    /\ ingest' = IF ingest.c < Len(ingest.groups)
                 THEN [ingest EXCEPT !.pc = "open_index", !.c = @ + 1]
                 ELSE [ingest EXCEPT !.pc = "open_documents"]
    /\ UNCHANGED <<documents, load, engine>>
    /\ IndexFrame

\* aiofiles.open(docs_file, 'w')
OpenDocuments ==
    /\ ingest # None /\ ingest.pc = "open_documents"
    /\ data_dir' = [data_dir EXCEPT !.docs_data = Truncated]
    /\ ingest' = [ingest EXCEPT !.pc = "write_documents"]
    /\ UNCHANGED <<documents, load, engine>>
    /\ IndexFrame

\* await f.write(json.dumps(docs_data, indent=2))
WriteDocuments ==
    /\ ingest # None /\ ingest.pc = "write_documents"
    /\ data_dir' = [data_dir EXCEPT !.docs_data = Some(documents)]
    /\ ingest' = [ingest EXCEPT !.pc = "open_master"]
    /\ UNCHANGED <<documents, load, engine>>
    /\ IndexFrame

\* aiofiles.open(master_file, 'w')
OpenMaster ==
    /\ ingest # None /\ ingest.pc = "open_master"
    /\ data_dir' = [data_dir EXCEPT !.master_index = Truncated]
    /\ ingest' = [ingest EXCEPT !.pc = "write_master"]
    /\ UNCHANGED <<documents, load, engine>>
    /\ IndexFrame

\* await f.write(json.dumps(master_index, indent=2)); return True
WriteMaster ==
    /\ ingest # None /\ ingest.pc = "write_master"
    /\ data_dir' = [data_dir EXCEPT !.master_index = ingest_documents(documents).master_index]
    /\ ingest' = None
    /\ UNCHANGED <<documents, load, engine>>
    /\ IndexFrame

\* await self.engine.load_indices(): a new call, once the last one has ended
LoadStart ==
    /\ IF load = None THEN TRUE ELSE load.pc \in {"done", "raised"}
    /\ load' = [pc |-> "master", todo |-> {}, overtaken |-> ingest # None]
    /\ UNCHANGED <<documents, data_dir, ingest, engine>>
    /\ IndexFrame

\* master_index.json, if it exists: json.loads raises JSONDecodeError on an empty file
LoadMaster ==
    /\ load # None /\ load.pc = "master"
    /\ IF data_dir.master_index = None
       THEN load' = [load EXCEPT !.pc = "documents"] /\ UNCHANGED engine
       ELSE IF is_json(data_dir.master_index)
       THEN /\ engine' = [engine EXCEPT !.master_index = data_dir.master_index]
            /\ load' = [load EXCEPT !.pc = "documents"]
       ELSE load' = [load EXCEPT !.pc = "raised"] /\ UNCHANGED engine
    /\ UNCHANGED <<documents, data_dir, ingest>>
    /\ IndexFrame

\* documents.json, if it exists: its documents are put into self.documents
LoadDocuments ==
    /\ load # None /\ load.pc = "documents"
    /\ IF data_dir.docs_data = None
       THEN load' = [load EXCEPT !.pc = "glob"] /\ UNCHANGED engine
       ELSE IF is_json(data_dir.docs_data)
       THEN /\ engine' = [engine EXCEPT
                            !.documents = load_documents(@, data_dir.docs_data[1], 1)]
            /\ load' = [load EXCEPT !.pc = "glob"]
       ELSE load' = [load EXCEPT !.pc = "raised"] /\ UNCHANGED engine
    /\ UNCHANGED <<documents, data_dir, ingest>>
    /\ IndexFrame

\* self.data_path.glob("*_index.json") lists the directory: the category files of this
\* moment, master_index.json left out
LoadGlob ==
    /\ load # None /\ load.pc = "glob"
    /\ load' = [load EXCEPT !.todo = DOMAIN data_dir.indices,
                            !.pc = IF DOMAIN data_dir.indices = {} THEN "done"
                                   ELSE "categories"]
    /\ UNCHANGED <<documents, data_dir, ingest, engine>>
    /\ IndexFrame

\* the next category file, in whatever order glob yields them
LoadCategory ==
    /\ load # None /\ load.pc = "categories"
    /\ \E category \in load.todo :
        LET file == index_file(data_dir, category)
        IN  IF is_json(file)
            THEN /\ engine' = load_category(engine, file[1])
                 /\ load' = [load EXCEPT !.todo = @ \ {category},
                                         !.pc = IF load.todo = {category} THEN "done"
                                                ELSE "categories"]
            ELSE load' = [load EXCEPT !.pc = "raised"] /\ UNCHANGED engine
    /\ UNCHANGED <<documents, data_dir, ingest>>
    /\ IndexFrame

NextIndex ==
    \/ IngestStart \/ OpenIndex \/ WriteIndex
    \/ OpenDocuments \/ WriteDocuments \/ OpenMaster \/ WriteMaster
    \/ LoadStart \/ LoadMaster \/ LoadDocuments \/ LoadGlob \/ LoadCategory

SpecIndex == InitIndex /\ [][NextIndex]_vars

-----------------------------------------------------------------------------
(* Claims about the index files and their loading, checked under SpecIndex *)

\* what a new engine holds after loading the directory that ingesting `batch` alone
\* into an empty directory leaves
snapshot_of(batch) ==
    LET out == ingest_documents(batch)
    IN  load_indices(NewEngine, out.master_index, out.docs_data, out.indices)

\* C15: at every point where search or find_harmonics can run -- between any two steps
\* of load_indices and of ingest_documents -- the documents and the resonance graph the
\* engine holds are those of one and the same complete batch (or of no batch at all).
C15_SearchSeesOneBatch ==
    \E batch \in IndexBatches \cup {<<>>} :
        /\ engine.documents = snapshot_of(batch).documents
        /\ engine.resonance_graph = snapshot_of(batch).resonance_graph

\* a call of load_indices has returned, it began while no ingestion was running, and no
\* ingestion has begun since: the directory holds what ingesting `documents` left
LoadedAfterIngestion ==
    /\ ingest = None
    /\ load # None
    /\ load.pc = "done"
    /\ ~load.overtaken

\* C16: after a batch has been ingested into a directory that held an earlier batch and
\* load_indices has run, on a new engine or on one that had loaded the earlier batch,
\* the engine's documents, category indices and resonance graph are those of the last
\* batch alone.
C16_LoadedIndexIsLastBatchOnly ==
    LoadedAfterIngestion =>
        /\ engine.documents = snapshot_of(documents).documents
        /\ engine.category_indices = snapshot_of(documents).category_indices
        /\ engine.resonance_graph = snapshot_of(documents).resonance_graph

\* C17: search and find_harmonics leave the engine as load_indices left it: after any
\* sequence of calls, with any contexts, self.documents, self.category_indices and
\* self.resonance_graph (neighbour scores included) are what was loaded from the
\* ingested batch, and the SearchContext handed to the last search is as it was handed in.
C17_CallsLeaveEngineAndContext ==
    /\ engine.documents = snapshot_of(documents).documents
    /\ engine.category_indices = snapshot_of(documents).category_indices
    /\ engine.resonance_graph = snapshot_of(documents).resonance_graph
    /\ IsSearch => context = call.context

\* a search whose re-ranking pass boosted a neighbour of the top result has returned, on
\* an engine that holds graph links and documents the filter skipped
C17_Witness ==
    /\ IsSearch
    /\ call.context # None
    /\ call.category_filter = Some("RSVP")
    /\ call.returned # Take(PreRerank, call.top_k)
    /\ DOMAIN engine.resonance_graph # {}
    /\ \E d \in Range(engine.documents) : d.category = "physics"

-----------------------------------------------------------------------------
(* Specification of the harmonics finder: find_harmonics on documents whose wave       *)
(* patterns were not all written by this ingester.  load_indices takes documents.json *)
(* as it finds it, and only there do two documents differ in frequency at an index    *)

\* most documents an octave above the base in the store
MaxOctaves == 11

\* a document of documents.json with the given frequencies: find_harmonics reads no
\* other field of its wave pattern
stored_document(id, category, frequencies) ==
    [id |-> id, category |-> category,
     wave_pattern |-> Some([frequencies |-> frequencies,
                            amplitudes |-> [k \in 1..Len(frequencies) |-> RInt(1)],
                            phases |-> [k \in 1..Len(frequencies) |-> 0],
                            harmonics |-> [k \in 1..Len(frequencies) |-> <<>>]]),
     emotional_valence |-> RInt(0), importance |-> Rat(1, 2)]

\* a base at 20 and 120 Hz; a fourth, a fifth and a unison of its first frequency; a
\* document without a wave pattern; an octave and a fifth of its two frequencies; a
\* second base at 100 Hz and a document at 142 Hz, whose ratio 1.42 is within 0.1 of
\* both 1.5 and 1.33
StoredDocuments ==
    << stored_document(1, "RSVP", <<20, 120>>),
       stored_document(2, "RSVP", <<27>>),
       stored_document(3, "physics", <<30>>),
       stored_document(4, "RSVP", <<20>>),
       bare_document(5, "general"),
       stored_document(6, "physics", <<40, 180>>),
       stored_document(7, "RSVP", <<100>>),
       stored_document(8, "RSVP", <<142>>) >>

\* the stores: the documents above, then up to MaxOctaves documents at 40 Hz
Stores ==
    {StoredDocuments \o [k \in 1..n |->
                            stored_document(Len(StoredDocuments) + k, "RSVP", <<40>>)] :
     n \in 0..MaxOctaves}

InitHarmonics ==
    /\ \E store \in Stores :
        /\ data_dir = [EmptyDir EXCEPT !.docs_data = Some(store)]
        /\ engine = load_indices(NewEngine, None, Some(store), <<>>)
    /\ ingest = None /\ load = None
    /\ call = None
    /\ documents = <<>>
    /\ context = None
    /\ mem8 = None /\ resonance_data = None
    /\ vector = <<>> /\ wave = None
    /\ wave1 = None /\ wave2 = None
    /\ resonance = None /\ q_resonance = None

NextHarmonics == FindHarmonics

SpecHarmonics == InitHarmonics /\ [][NextHarmonics]_vars

-----------------------------------------------------------------------------
(* Claims about WaveSearchEngine.find_harmonics, checked under SpecHarmonics *)

IsHarmonics == call # None /\ call.op = "find_harmonics"

LoadedIds == {d.id : d \in Range(engine.documents)}

LoadedDoc(id) == CHOOSE d \in Range(engine.documents) : d.id = id

\* the base document of the call is loaded and has a wave pattern
HasBase == call.doc_id \in LoadedIds /\ LoadedDoc(call.doc_id).wave_pattern # None

\* the other documents find_harmonics compares the base with
Others ==
    {d \in Range(engine.documents) : d.id # call.doc_id /\ d.wave_pattern # None}

\* C18: find_harmonics returns at most 10 entries in non-increasing order of
\* harmonic_score; none is the base document, none is a document without a wave
\* pattern, and each has a strictly positive harmonic_score; the list is empty when
\* doc_id is not loaded or the base document has no wave pattern.
C18_HarmonicsList ==
    IsHarmonics =>
        /\ Len(call.returned) <= 10
        /\ \A k \in 1..(Len(call.returned) - 1) :
                RGe(call.returned[k].harmonic_score, call.returned[k + 1].harmonic_score)
        /\ \A k \in 1..Len(call.returned) :
                /\ call.returned[k].id # call.doc_id
                /\ call.returned[k].id \in LoadedIds
                /\ LoadedDoc(call.returned[k].id).wave_pattern # None
                /\ RGt(call.returned[k].harmonic_score, RInt(0))
        /\ ~HasBase => call.returned = <<>>

\* find_harmonics returned ten entries of different scores for a base that more than
\* ten other documents harmonise with, while a pattern-less document and a document
\* scoring 0 were loaded
C18_Witness ==
    /\ IsHarmonics
    /\ call.doc_id = 1
    /\ call.harmonic_type = "all"
    /\ Len(call.returned) = 10
    /\ Len(engine.documents) > 18
    /\ RGt(call.returned[1].harmonic_score, call.returned[10].harmonic_score)
    /\ \E d \in Range(engine.documents) : d.wave_pattern = None

\* the amounts an index adds: per interval, its centre, its amount and the
\* harmonic_type that selects it besides "all"
Intervals ==
    << [centre |-> Rat(2, 1), amount |-> RInt(1), type |-> "octave"],
       [centre |-> Rat(15, 10), amount |-> Rat(8, 10), type |-> "fifth"],
       [centre |-> Rat(133, 100), amount |-> Rat(7, 10), type |-> "fourth"] >>

\* whether the ratio other / base is within 0.1 of the centre of a selected interval
Selected(iv, ratio, harmonic_type) ==
    /\ harmonic_type \in {"all", iv.type}
    /\ RLt(RAbs(RSub(ratio, iv.centre)), Rat(1, 10))

RatioAt(base_doc, other_doc, k) ==
    RDiv(RInt(other_doc.wave_pattern[1].frequencies[k]),
         RInt(base_doc.wave_pattern[1].frequencies[k]))

SharedIndices(base_doc, other_doc) ==
    1..Min(Len(base_doc.wave_pattern[1].frequencies),
           Len(other_doc.wave_pattern[1].frequencies))

\* the score when every selected interval the ratio falls in adds its amount
EveryIntervalScore(base_doc, other_doc, harmonic_type) ==
    SumSeq([k \in SharedIndices(base_doc, other_doc) |->
              SumSeq([v \in 1..3 |->
                        IF Selected(Intervals[v], RatioAt(base_doc, other_doc, k),
                                    harmonic_type)
                        THEN Intervals[v].amount ELSE RInt(0)])])

\* the score when only the first selected interval the ratio falls in adds its amount
FirstIntervalScore(base_doc, other_doc, harmonic_type) ==
    SumSeq([k \in SharedIndices(base_doc, other_doc) |->
              LET hit == {v \in 1..3 : Selected(Intervals[v],
                                                RatioAt(base_doc, other_doc, k),
                                                harmonic_type)}
              IN  IF hit = {} THEN RInt(0)
                  ELSE Intervals[CHOOSE v \in hit : \A u \in hit : v <= u].amount])

\* the entry of the document `id` in the returned list, or None
Entry(id) ==
    IF \E k \in 1..Len(call.returned) : call.returned[k].id = id
    THEN Some(call.returned[CHOOSE k \in 1..Len(call.returned) : call.returned[k].id = id])
    ELSE None

FirstFrequency(d) == d.wave_pattern[1].frequencies[1]

\* C19 as stated: for a base whose first frequency is 20 and another document whose
\* first frequency is 40, find_harmonics with harmonic_type "octave" returns the other
\* document with relationship "octave" and harmonic_score >= 1.0; and the
\* harmonic_score of every returned document is the sum, over the shared indices, of
\* 1.0, 0.8 and 0.7 for each selected interval the ratio is within 0.1 of.
C19_OctaveScenarioAndAmounts ==
    (IsHarmonics /\ HasBase) =>
        /\ (call.harmonic_type = "octave" /\ FirstFrequency(LoadedDoc(call.doc_id)) = 20)
           => \A d \in Others :
                FirstFrequency(d) = 40
                => /\ Entry(d.id) # None
                   /\ Entry(d.id)[1].relationship = "octave"
                   /\ RGe(Entry(d.id)[1].harmonic_score, RInt(1))
        /\ \A d \in Others :
                Entry(d.id) # None
                => Entry(d.id)[1].harmonic_score
                     = EveryIntervalScore(LoadedDoc(call.doc_id), d, call.harmonic_type)

\* C19 amended: the other document scores >= 1.0 with relationship "octave" and is
\* returned when it is among the ten best; every index adds the amount of the first
\* selected interval its ratio is within 0.1 of, in the order octave, fifth, fourth.
C19_OctaveScenarioFirstInterval ==
    (IsHarmonics /\ HasBase) =>
        LET base_doc == LoadedDoc(call.doc_id)
            score(d) == FirstIntervalScore(base_doc, d, call.harmonic_type)
            scoring == {d \in Others : RGt(score(d), RInt(0))}
        IN  /\ \A d \in Others :
                Entry(d.id) # None => Entry(d.id)[1].harmonic_score = score(d)
            /\ \A d \in scoring :
                \/ Entry(d.id) # None
                \/ /\ Len(call.returned) = 10
                   /\ \A k \in 1..10 : RGe(call.returned[k].harmonic_score, score(d))
            /\ (call.harmonic_type = "octave" /\ FirstFrequency(base_doc) = 20)
               => \A d \in Others :
                    FirstFrequency(d) = 40
                    => /\ RGe(score(d), RInt(1))
                       /\ Entry(d.id) # None => Entry(d.id)[1].relationship = "octave"

\* an octave lookup on the base whose first frequency is 20 returned the document whose
\* first frequency is 40, labelled "octave", with the score 1.0 of its one octave index
C19_Witness ==
    /\ IsHarmonics
    /\ call.doc_id = 1
    /\ call.harmonic_type = "octave"
    /\ FirstFrequency(LoadedDoc(1)) = 20
    /\ FirstFrequency(LoadedDoc(6)) = 40
    /\ Entry(6) # None
    /\ Entry(6)[1].relationship = "octave"
    /\ Entry(6)[1].harmonic_score = RInt(1)

-----------------------------------------------------------------------------
(* Claims about the two scorer variants, checked under SpecScore *)

\* both scorers have scored the two patterns, the query-time one under focused / balanced
BothScoredPlain == resonance # None /\ q_resonance # None /\ FocusedBalanced

SharedLen20 == Min(Len(wave1.frequencies), Len(wave2.frequencies))

\* the two patterns carry, at a common index, tags that reference the same earlier index
SharesTag ==
    \E k \in 1..SharedLen20 :
        \E p \in 1..Len(wave1.harmonics[k]) :
            \E q \in 1..Len(wave2.harmonics[k]) :
                wave1.harmonics[k][p][1] = wave2.harmonics[k][q][1]

\* the pattern with its harmonic tags removed
Untagged(w) == [w EXCEPT !.harmonics = [k \in 1..Len(w.harmonics) |-> <<>>]]

-----------------------------------------------------------------------------
(* Claims about the scores of WaveSearchEngine.search, checked under SpecSearch *)

\* the query-time scorer's result for the query of the call and the document `d`
BaseScore(d) ==
    search_resonance(search_vector_to_wave(call.query_embedding), d.wave_pattern[1],
                     ContextOf)

\* the pre-rerank score C21 states for the document `d`
WeightedScore(d) ==
    IF ContextOf.emotional_state \in {"raw", "graceland"}
    THEN RMul(RMul(BaseScore(d), RAdd(RInt(1), RAbs(d.emotional_valence))),
              RAdd(Rat(1, 2), d.importance))
    ELSE RMul(BaseScore(d), RAdd(Rat(1, 2), d.importance))

\* C21: every candidate's pre-rerank score is base * (0.5 + importance) under focused
\* or happy and base * (1 + |valence|) * (0.5 + importance) under raw or graceland,
\* base being the query-time scorer's result; a search under balanced, where no
\* re-ranking runs, returns its entries with exactly these scores.
C21_ValenceAndImportanceFactors ==
    IsSearch =>
        /\ \A e \in Range(PreRerank) : e.resonance = WeightedScore(LoadedDoc(e.id))
        /\ ContextOf.harmonic_preference = "balanced"
           => \A k \in 1..Len(call.returned) :
                call.returned[k].resonance = WeightedScore(LoadedDoc(call.returned[k].id))

\* a balanced search under raw or graceland returned, with a non-zero score, a document
\* of non-zero valence and of importance other than 0.5
C21_Witness ==
    /\ IsSearch
    /\ ContextOf.emotional_state \in {"raw", "graceland"}
    /\ ContextOf.harmonic_preference = "balanced"
    /\ \E k \in 1..Len(call.returned) :
        LET d == LoadedDoc(call.returned[k].id)
        IN  /\ d.emotional_valence # RInt(0)
            /\ d.importance # Rat(1, 2)
            /\ call.returned[k].resonance # RInt(0)
            /\ call.returned[k].resonance # BaseScore(d)

-----------------------------------------------------------------------------
(* Specification of the re-ranking pass: searches on an engine whose resonance graph   *)
(* is the one load_indices found in the index files, written by this ingester or not  *)

\* the loaded documents: the library, a second physics document and an RSVP document
\* of a longer embedding
RerankLibrary ==
    Library \o << process_file(6, "physics", << Rat(1, 2) >>, RInt(0), Rat(7, 10)),
                  process_file(7, "RSVP", << Rat(1, 4), Rat(-1, 1), Rat(1, 1) >>,
                               Rat(-1, 4), Rat(6, 10)) >>

\* resonance_graph contents of the index file: none; a link whose target has a
\* neighbour of its own; a strong link to a low-scoring document; a list that names its
\* own document; links of the documents other queries put on top; the graph this
\* ingester builds for the RSVP documents
StoredGraphs ==
    { <<>>,
      (1 :> << <<3, Rat(9, 10)>> >>) @@ (3 :> << <<6, Rat(8, 10)>>, <<1, Rat(9, 10)>> >>),
      (1 :> << <<6, Rat(2, 1)>> >>),
      (1 :> << <<1, Rat(1, 1)>>, <<2, Rat(1, 1)>> >>),
      (5 :> << <<1, Rat(1, 1)>>, <<3, Rat(1, 1)>> >>) @@ (2 :> << <<1, Rat(1, 2)>> >>),
      mem8_graph(SelectSeq(RerankLibrary, LAMBDA d : d.category = "RSVP")) }

\* the index file that holds the graph
stored_index(graph) ==
    [category |-> "RSVP",
     document_count |-> Len(RerankLibrary),
     documents |-> [i \in 1..Len(RerankLibrary) |-> RerankLibrary[i].id],
     resonance_graph |-> graph]

InitRerank ==
    /\ \E graph \in StoredGraphs :
        /\ data_dir = [EmptyDir EXCEPT !.docs_data = Some(RerankLibrary),
                                       !.indices = ("RSVP" :> Some(stored_index(graph)))]
        /\ engine = load_indices(NewEngine, None, Some(RerankLibrary),
                                 <<stored_index(graph)>>)
    /\ ingest = None /\ load = None
    /\ call = None
    /\ documents = <<>>
    /\ context = None
    /\ mem8 = None /\ resonance_data = None
    /\ vector = <<>> /\ wave = None
    /\ wave1 = None /\ wave2 = None
    /\ resonance = None /\ q_resonance = None

NextRerank == NewContext \/ Search

SpecRerank == InitRerank /\ [][NextRerank]_vars

-----------------------------------------------------------------------------
(* Claims about the re-ranking pass of WaveSearchEngine.search, checked under SpecRerank *)

\* C22: under harmonic_preference = balanced no re-ranking runs: the list a search
\* returns (ids, order and scores) is the sorted pre-rerank list cut to top_k, and it
\* is the list the same search returns on the same engine with any other content of
\* the resonance graph.
C22_BalancedIgnoresGraph ==
    (IsSearch /\ ContextOf.harmonic_preference = "balanced") =>
        /\ call.returned = slice_to(PreRerank, call.top_k)
        /\ \A graph \in StoredGraphs :
                call.returned = search([engine EXCEPT !.resonance_graph = graph],
                                       call.query_embedding, call.context,
                                       call.category_filter, call.top_k)

\* the same call under the preference `preference`
ReturnedUnder(preference) ==
    search(engine, call.query_embedding,
           Some([ContextOf EXCEPT !.harmonic_preference = preference]),
           call.category_filter, call.top_k)

\* a balanced search returned two or more documents on an engine whose graph changes
\* what the same search returns under octaves
C22_Witness ==
    /\ IsSearch
    /\ ContextOf.harmonic_preference = "balanced"
    /\ Len(call.returned) > 1
    /\ call.returned[1].id \in DOMAIN engine.resonance_graph
    /\ ReturnedUnder("octaves") # call.returned

\* the re-ranking pass of the call runs: the preference is not balanced and there is a
\* result
RerankRuns ==
    /\ IsSearch
    /\ ContextOf.harmonic_preference # "balanced"
    /\ Len(PreRerank) > 0

TopId == PreRerank[1].id

\* the graph neighbours of the pre-rerank top, with their scores
TopLinks ==
    IF TopId \in DOMAIN engine.resonance_graph
    THEN Range(engine.resonance_graph[TopId]) ELSE {}

IsTopNeighbour(id) == id # TopId /\ \E link \in TopLinks : link[1] = id

\* C23: when the re-ranking pass runs, every returned score is the pre-rerank score,
\* multiplied once by (1 + 0.5 * neighbour_score) for a result other than the pre-rerank
\* top that is among the top's graph neighbours and unchanged for the top itself, for
\* non-neighbours and for neighbours of neighbours; the boost is applied to the full
\* list before the cut to top_k, so no candidate left out has a boosted score higher
\* than a returned one.
C23_SingleHopBoost ==
    RerankRuns =>
        LET top == TopId
            links == TopLinks
            single_hop(d) ==
                IF d.id # top /\ \E link \in links : link[1] = d.id
                THEN RMul(WeightedScore(d),
                          RAdd(RInt(1),
                               RMul(Rat(1, 2),
                                    (CHOOSE link \in links : link[1] = d.id)[2])))
                ELSE WeightedScore(d)
            left_out == {d \in Eligible : d.id \notin ReturnedIds}
        IN  /\ \A k \in 1..Len(call.returned) :
                    call.returned[k].resonance = single_hop(LoadedDoc(call.returned[k].id))
            /\ Len(call.returned) = Min(call.top_k, Cardinality(Eligible))
            /\ \A d \in left_out :
                    \A k \in 1..Len(call.returned) :
                        ~RGt(single_hop(d), call.returned[k].resonance)

\* a search cut to two results returned first a boosted neighbour that was not among
\* the first two before the pass, ahead of the pre-rerank top, while that neighbour has
\* a neighbour of its own that is a candidate and not a neighbour of the top
C23_Witness ==
    /\ RerankRuns
    /\ call.top_k = 2
    /\ Len(call.returned) = 2
    /\ IsTopNeighbour(call.returned[1].id)
    /\ call.returned[1].id \notin Range(IdsOf(Take(PreRerank, 2)))
    /\ call.returned[2].id = TopId
    /\ call.returned[1].id \in DOMAIN engine.resonance_graph
    /\ \E d \in Eligible :
            /\ d.id # TopId
            /\ ~IsTopNeighbour(d.id)
            /\ \E link \in Range(engine.resonance_graph[call.returned[1].id]) :
                    link[1] = d.id

\* the query wave of the call
QueryWave == search_vector_to_wave(call.query_embedding)

\* the indices the query wave shares with the wave pattern of `d`
SharedWith(d) ==
    1..Min(Len(QueryWave.frequencies), Len(d.wave_pattern[1].frequencies))

ContextUnder(preference) == [ContextOf EXCEPT !.harmonic_preference = preference]

\* the sorted pre-rerank list of the call under the preference `preference`
PreRerankUnder(preference) ==
    sort_results(search_candidates(engine.documents, QueryWave,
                                   ContextUnder(preference), call.category_filter))

\* C24: the query wave and every stored wave pattern of the transform have equal
\* frequencies at every shared index, so freq_match is 1 there and the query-time
\* scorer returns the same value under balanced, octaves, fifths and dissonant; the
\* pre-rerank list of a search is the same under the four preferences, and so is the
\* returned list whenever the pre-rerank top has no graph neighbour among the other
\* candidates: harmonic_preference changes a search only through the re-ranking pass.
C24_PreferenceActsThroughRerankOnly ==
    IsSearch =>
        LET before == PreRerank
            links == IF Len(before) > 0 /\ before[1].id \in DOMAIN engine.resonance_graph
                     THEN Range(engine.resonance_graph[before[1].id]) ELSE {}
            boosted == {k \in 2..Len(before) : \E link \in links : link[1] = before[k].id}
            under_octaves == ReturnedUnder("octaves")
        IN  /\ \A d \in Eligible :
                /\ \A k \in SharedWith(d) :
                    /\ QueryWave.frequencies[k] = d.wave_pattern[1].frequencies[k]
                    /\ freq_match(QueryWave.frequencies[k],
                                  d.wave_pattern[1].frequencies[k]) = RInt(1)
                /\ \A preference \in HarmonicPreferences :
                    search_resonance(QueryWave, d.wave_pattern[1],
                                     ContextUnder(preference)) = BaseScore(d)
            /\ \A preference \in HarmonicPreferences :
                PreRerankUnder(preference) = before
            /\ ReturnedUnder("fifths") = under_octaves
            /\ ReturnedUnder("dissonant") = under_octaves
            /\ boosted = {} => ReturnedUnder("balanced") = under_octaves

\* a search under octaves whose query shares two indices with a returned document of
\* non-zero score returned what it returns under fifths, and not what it returns
\* under balanced
C24_Witness ==
    /\ IsSearch
    /\ ContextOf.harmonic_preference = "octaves"
    /\ \E k \in 1..Len(call.returned) :
            /\ Cardinality(SharedWith(LoadedDoc(call.returned[k].id))) = 2
            /\ BaseScore(LoadedDoc(call.returned[k].id)) # RInt(0)
    /\ ReturnedUnder("fifths") = call.returned
    /\ ReturnedUnder("balanced") # call.returned

-----------------------------------------------------------------------------
(* Specification of the harmonics finder on an ingested library: every stored wave    *)
(* pattern is the transform of an embedding                                           *)

\* longest embedding of an ingested document
MaxStoredLen == 3

\* embeddings of the two RSVP documents: every vector up to MaxStoredLen over two values
TransformedEmbeddings == SeqsUpTo(ScoreVals, MaxStoredLen)

\* the ingested batch: two RSVP documents and a general document without a wave pattern
transformed_batch(embedding1, embedding2) ==
    << process_file(1, "RSVP", embedding1, RInt(0), Rat(1, 2)),
       process_file(2, "RSVP", embedding2, Rat(1, 2), Rat(9, 10)),
       bare_document(3, "general") >>

InitTransformed ==
    /\ \E embedding1 \in TransformedEmbeddings, embedding2 \in TransformedEmbeddings :
            documents = transformed_batch(embedding1, embedding2)
    /\ LET out == ingest_documents(documents)
       IN  /\ data_dir = dir_of(out)
           /\ engine = load_indices(NewEngine, out.master_index, out.docs_data, out.indices)
    /\ ingest = None /\ load = None
    /\ call = None
    /\ context = None
    /\ mem8 = None /\ resonance_data = None
    /\ vector = <<>> /\ wave = None
    /\ wave1 = None /\ wave2 = None
    /\ resonance = None /\ q_resonance = None

NextTransformed == FindHarmonics

SpecTransformed == InitTransformed /\ [][NextTransformed]_vars

-----------------------------------------------------------------------------
(* Claims about find_harmonics on an ingested library, checked under SpecTransformed *)

\* the loaded documents that have a wave pattern
Patterned == {d \in Range(engine.documents) : d.wave_pattern # None}

\* C25: when every loaded wave pattern was produced by WaveTransformer.vector_to_wave,
\* the frequencies of any two documents are equal at every shared index (their ratio is
\* exactly 1.0), and find_harmonics returns the empty list for every doc_id and every
\* harmonic_type.
C25_NoHarmonicsAmongTransformed ==
    /\ \A d1 \in Patterned, d2 \in Patterned :
            \A k \in SharedIndices(d1, d2) :
                /\ d1.wave_pattern[1].frequencies[k] > 0
                /\ RatioAt(d1, d2, k) = RInt(1)
    /\ IsHarmonics => call.returned = <<>>

\* find_harmonics for every interval was called on a loaded document that shares two or
\* more indices with another loaded document
C25_Witness ==
    /\ IsHarmonics
    /\ call.harmonic_type = "all"
    /\ HasBase
    /\ \E d \in Others : Cardinality(SharedIndices(LoadedDoc(call.doc_id), d)) >= 2
    /\ call.returned = <<>>

-----------------------------------------------------------------------------
(* Specification of the two transforms: the embedding of a document is transformed by *)
(* the ingester and, as the embedding of a query, by the search engine                *)

\* query_wave = self.vector_to_wave(query_embedding), for a query whose embedding is
\* the embedding of the document
QueryToWave ==
    /\ call = None
    /\ call' = [op |-> "vector_to_wave",
                vector |-> vector,
                returned |-> search_vector_to_wave(vector)]
    /\ UNCHANGED <<vector, wave, wave1, wave2, context, resonance, q_resonance,
                   documents, mem8, resonance_data,
                   data_dir, ingest, load, engine>>

InitQuery == InitWave /\ call = None

NextQuery == VectorToWave \/ QueryToWave

SpecQuery == InitQuery /\ [][NextQuery]_vars

-----------------------------------------------------------------------------
(* Claims about the query-side transform, checked under SpecQuery *)

BothTransformed == wave # None /\ call # None /\ call.op = "vector_to_wave"

\* C26: for every input vector the query-side transform yields the frequencies,
\* amplitudes and phases the ingestion-side transform yields, and no harmonics field:
\* the query built from a document's embedding equals the stored pattern index by
\* index in frequency, amplitude and phase.
C26_QueryTransformMatchesIngestion ==
    BothTransformed =>
        /\ DOMAIN call.returned = DOMAIN wave[1] \ {"harmonics"}
        /\ "harmonics" \in DOMAIN wave[1]
        /\ call.returned.frequencies = wave[1].frequencies
        /\ call.returned.amplitudes = wave[1].amplitudes
        /\ call.returned.phases = wave[1].phases

\* an embedding with a negative, a zero and a positive component, long enough for its
\* stored pattern to carry a harmonic tag, was transformed on both sides
C26_Witness ==
    /\ BothTransformed
    /\ \E k \in 1..Len(vector) : RLt(vector[k], RInt(0))
    /\ \E k \in 1..Len(vector) : vector[k] = RInt(0)
    /\ \E k \in 1..Len(vector) : RGt(vector[k], RInt(0))
    /\ \E k \in 1..Len(vector) : wave[1].harmonics[k] # <<>>

-----------------------------------------------------------------------------
(* Claims about the links of the graph builders, checked under SpecGraph *)

\* the number of documents of the category of the document `id`
CategorySize(id) ==
    Cardinality({k \in 1..Len(documents) : documents[k].category = DocById(id).category})

\* the scores with which the graph `entries` lists `target` as a neighbour of `source`
LinkScores(entries, source, target) ==
    UNION {{g.links[e].resonance :
                e \in {e \in 1..Len(g.links) : g.links[e].target_id = target}} :
           g \in {h \in entries : h.id = source}}

\* the links of the graph of one builder are mutual in every category small enough for
\* no list to be cut, and every key of the graph has a neighbour
MutualLinks(entries, K) ==
    /\ \A a \in Range(documents), b \in Range(documents) :
            (/\ a.id # b.id
             /\ a.category = b.category
             /\ a.wave_pattern # None /\ b.wave_pattern # None
             /\ CategorySize(a.id) <= K + 1)
            => LinkScores(entries, a.id, b.id) = LinkScores(entries, b.id, a.id)
    /\ \A g \in entries : Len(g.links) > 0

\* C27: in the graph of either builder, for two documents a and b of one category
\* that holds at most K + 1 documents (K = 10 and K = 20), b is in a's neighbour list
\* with score s exactly when a is in b's list with the same score s; and every
\* document id that is a key of the graph has a non-empty neighbour list.
C27_LinksMutualWithoutTruncation ==
    /\ MutualLinks(Mem8Entries, 10)
    /\ MutualLinks(QdrantEntries, 20)

\* both builders linked, in both directions, two RSVP documents of different
\* embeddings in a category of at most 11 documents, while a document of that
\* category that resonates with none is no key of either graph
C27_Witness ==
    /\ \E a \in Range(documents), b \in Range(documents) :
            /\ a.id # b.id
            /\ a.wave_pattern # None /\ b.wave_pattern # None
            /\ a.wave_pattern # b.wave_pattern
            /\ CategorySize(a.id) <= 11
            /\ LinkScores(Mem8Entries, a.id, b.id) # {}
            /\ LinkScores(Mem8Entries, b.id, a.id) # {}
            /\ LinkScores(QdrantEntries, a.id, b.id) # {}
            /\ LinkScores(QdrantEntries, b.id, a.id) # {}
    /\ \E d \in Range(documents) :
            /\ d.category = "RSVP" /\ d.wave_pattern # None
            /\ \A g \in GraphEntries : g.id # d.id

====
